---- MODULE Spec2Model ----
(***************************************************************************)
(* spotsh: selection / launch / discovery / price-lookup engine.           *)
(*                                                                         *)
(* The module holds several specifications over one set of variables:      *)
(*   SpecSel     one command-line invocation: dispatch, selectOrLaunch,    *)
(*               the ssh probe loop (testSsh), firewall remediation and    *)
(*               the ssh/scp exec (cmd/spotsh main.go);                    *)
(*   SpecRegion  lookupEc2SpotOneRegion scanning one region's instances;   *)
(*   SpecLookup  LookupEc2Spot fanning one worker out per region;          *)
(*   SpecPrice   LookupEc2SpotPrices and its shared price table.           *)
(* Each specification keeps the variables of the others at their idle      *)
(* values.                                                                 *)
(***************************************************************************)
EXTENDS Integers, Sequences, FiniteSets, TLC

VARIABLES
    \* ---- one command-line invocation (main.go) ----
    cmd,            \* subcommand name chosen by main ("" = no subcommand)
    instanceId,     \* value of the --instance-id flag ("" when absent)
    flagOk,         \* whether flag parsing of the subcommand arguments succeeds
    pc,             \* position of the invocation
    located,        \* what LookupEc2Spot returned: [err, results]
    prefs,          \* outcome of newLaunchArgsFromPrefs ("notcalled" if not run)
    launchResults,  \* selectOrLaunch's local slice after lookup / launch
    launchCount,    \* number of LaunchEc2Spot invocations made
    launched,       \* the record LaunchEc2Spot returned (NoRecord if not called)
    launcherErr,    \* the error LaunchEc2Spot returned ("nil" if not called)
    selectedInstance, \* the record selectOrLaunch returned (NoRecord if none)
    err,            \* the error the invocation ends with (NoErr if none)
    retries,        \* testSsh loop counter
    checkFirewall,  \* sshCommon's checkFirewall flag (written by testSsh)
    probeErr,       \* result of the last testSshOnce
    probeSeq,       \* 0 before probing, 1 first testSsh call, 2 the re-run
    remediations,   \* number of CheckOrAddSshIngressRule invocations
    ingress,        \* what CheckOrAddSshIngressRule saw and did
    seqHist,        \* per probe sequence: [n, sawTimeout, onlyRetryable, last]
    execd,          \* the external process executed (NoExec if none)
    calls,          \* what imageMain / terminateMain called after selection: [op, id, ok]
    needVpnTeardown, \* what GetTagValue returned to terminateMain ("unread" before)
    subErr,         \* the error imageMain / terminateMain returned ("nil" if none)
    \* ---- lookupEc2SpotOneRegion scanning one region (spotinst.go) ----
    locator,        \* which package's locator runs: "aws" or "internal/aws"
    descInstances,  \* DescribeInstances output, reservations flattened
    rpc,            \* position of the scan
    scanIdx,        \* number of instances the loop has visited
    scan,           \* the loop's variables: [foundSpotShTag, user, os, results, iTypes]
    rerr,           \* the error the scan returns ("nil" if none)
    priced,         \* per record of scan.results: [InstanceType, AzName, CurrentPrice]
    priceQueries,   \* the LookupEc2SpotPrices calls made: [Region, InstanceTypes]
    spotPriceAzs,   \* spotPriceResult: per queried type, the Azs of the region
    \* ---- LookupEc2Spot, one worker per region (spotinst.go) ----
    regionArg,      \* awsCfgIn.Region: a region name or "all"
    cloud,          \* per region, the instances DescribeInstances lists
    lpc,            \* position of LookupEc2Spot itself
    regionList,     \* the regions a worker was started for
    wpc,            \* per region, the worker's position
    wres,           \* per region, the worker's resultsOneRegion
    wsnap,          \* per region, the slice value append() read
    resultLock,     \* holder of resultLock ("free" if none)
    resultsAllRegions, \* the shared accumulator
    wgErr,          \* errgroup: the first error a worker returned ("nil" if none)
    lret,           \* what LookupEc2Spot returned: [results, err]
    \* ---- LookupEc2SpotPrices and its PriceTable (price.go) ----
    piTypes,        \* the instance types asked for
    pRegionArg,     \* awsCfg.Region: a region name or "all"
    ppc,            \* position of LookupEc2SpotPrices itself
    pRegionList,    \* the regions a worker was started for
    pwpc,           \* per region, the worker's position
    result,         \* the shared LookupEc2SpotPriceResult: [InstanceTypes, CheapestIType]
    ingested,       \* number of price points ingested so far, all workers
    repeated,       \* whether some (type, region, az) was reported twice
    pwgErr,         \* errgroup: the first error a worker returned ("nil" if none)
    pret,           \* what LookupEc2SpotPrices returned: [result, err]
    pcalls,         \* the kinds of network call LookupEc2SpotPrices has made
    mutex,          \* result.mutex: "free" or the region whose worker holds it
    pcur,           \* per region, the history entry its worker is storing
    psnap,          \* per region, the table as its worker read it for the update
    reported,       \* every entry the regions reported, in order: [t, r, p]
    \* ---- LaunchEc2Spot (aws/spotinst.go) ----
    launchArgs,     \* the LaunchEc2SpotArgs passed in (Os is rewritten by the default)
    lapc,           \* position of LaunchEc2Spot
    launchResult,   \* the LaunchEc2SpotResult being filled in
    launchErr,      \* the error LaunchEc2Spot returns ("nil" if none)
    amiId,          \* createLaunchTemplate's amiId
    keyName,        \* createLaunchTemplate's keyName
    template,       \* the CreateLaunchTemplate request sent
    effects,        \* the state-changing calls made so far
    stages,         \* the stages entered, in order
    polls,          \* DescribeInstances calls that reported no address yet
    lastPoll,       \* what the latest DescribeInstances call of the loop gave
    fleet,          \* what CreateFleet returned: instances, ids of the first
    \* ---- OperatingSystem conversions (types.go) ----
    osVal,          \* an OperatingSystem value
    osValStr,       \* osVal.String() ("" until converted)
    osValBack,      \* OsFromString(osVal.String())
    osName,         \* a string
    osNameVal,      \* OsFromString(osName)
    osNameBack,     \* OsFromString(osName).String()
    ospc,           \* how far each of the two conversions chains has got
    \* ---- spotsh scp (main.go: main, scpMain) ----
    subCommandName, \* main's subCommandName: "ssh" or "scp"
    scpArgsIn,      \* the words that follow the subcommand on the command line
    scpArgs,        \* the args slice as main and scpMain pass it on
    scpSelected,    \* [User, PublicIp] of the selected instance
    scpExecd,       \* the arguments scp was exec'd with after the common ones
    scppc,          \* position in main / scpMain
    \* ---- LaunchEc2Spot of internal/aws: cheapest type and subnet (spotinst.go) ----
    clTypes,        \* launchArgs.InstanceTypes (a set; {} when none was given)
    clpc,           \* position of the call
    clTable,        \* spotPriceResult (NoTable before the price query)
    clSubnets,      \* the DescribeSubnets output getSubnetIdFromAzName read
    clSubnetId,     \* subnetId
    clRun,          \* the RunInstancesInput sent: [InstanceType, SubnetId]
    clResult,       \* launchResult: [InstanceType, InstanceId, PublicIp]
    clPolls,        \* polling rounds that found no address yet
    clErr,          \* the error returned ("nil" if none)
    \* ---- getDefaultSecurityGroupId (internal/aws/vpc.go) ----
    sgVpcs,         \* DescribeVpcs output: [VpcId, IsDefault]
    sgGroups,       \* DescribeSecurityGroups output: [GroupId, GroupName, VpcId]
    sgpc,           \* position of the call
    sgVpcId,        \* vpcId
    sgRet           \* what the call returned: [id, err]

selVars == <<cmd, instanceId, flagOk, pc, located, prefs, launchResults, launchCount,
             launched, launcherErr, selectedInstance, err, retries, checkFirewall, probeErr,
             probeSeq, remediations, ingress, seqHist, execd, calls, needVpnTeardown, subErr>>

regionVars == <<locator, descInstances, rpc, scanIdx, scan, rerr, priced, priceQueries,
                spotPriceAzs>>

lookupVars == <<regionArg, cloud, lpc, regionList, wpc, wres, wsnap, resultLock,
                resultsAllRegions, wgErr, lret>>

priceVars == <<piTypes, pRegionArg, ppc, pRegionList, pwpc, result, ingested,
               repeated, pwgErr, pret, pcalls, mutex, pcur, psnap, reported>>

\* the part of it that only the lock-level steps of a worker change
plockVars == <<mutex, pcur, psnap, reported>>

launchVars == <<launchArgs, lapc, launchResult, launchErr, amiId, keyName, template,
                effects, stages, polls, lastPoll, fleet>>

osVars == <<osVal, osValStr, osValBack, osName, osNameVal, osNameBack, ospc>>

scpVars == <<subCommandName, scpArgsIn, scpArgs, scpSelected, scpExecd, scppc>>

cheapVars == <<clTypes, clpc, clTable, clSubnets, clSubnetId, clRun, clResult, clPolls, clErr>>

sgVars == <<sgVpcs, sgGroups, sgpc, sgVpcId, sgRet>>

vars == <<selVars, regionVars, lookupVars, priceVars, launchVars, osVars, scpVars, cheapVars, sgVars>>

-----------------------------------------------------------------------------
(* Bounds *)

\* number of distinct instances the account may hold
MaxInst == 2
\* number of instances DescribeInstances lists in the region scanned alone
MaxScan == 2
\* number of regions enabled in the account
MaxRegions == 2
\* number of instances per region when all regions are searched
MaxRegionInst == 1
\* number of price points the regions report in all
MaxPoints == 3
\* number of address polls that find the instance without an address
MaxPolls == 2
\* number of ingress ranges of the instance's security group
MaxRules == 2
\* largest small OperatingSystem value converted (beyond OsInvalid)
MaxOsValue == 9
\* length of the longest scp argument
MaxArgLen == 6
\* number of price points reported when the lock steps are told apart
MaxLockPoints == 2
\* number of entries of the price history the launcher's query returns
MaxHistory == 2
\* number of subnets of the launch region
MaxSubnets == 2
\* number of VPCs of the region
MaxVpcs == 2
\* number of security groups of the region
MaxSgs == 3

-----------------------------------------------------------------------------
(* Values *)

IdPool == <<"i-1", "i-2", "i-3", "i-4">>
InstanceIds == {IdPool[k] : k \in 1..MaxInst}
\* id of the instance a launch request creates
NewInstanceId == "i-new"
\* an --instance-id value that names no instance of the account
AbsentInstanceId == "i-absent"

PublicIps == {"", "203.0.113.7"}
KeyFiles == {"", "spotsh.pem"}

\* LaunchEc2SpotResult (the fields the command line reads)
LaunchEc2SpotResult(id, ip, key) ==
    [InstanceId |-> id, PublicIp |-> ip, User |-> "ec2-user", LocalKeyFile |-> key]

NoRecord == [InstanceId |-> "", PublicIp |-> "", User |-> "", LocalKeyFile |-> ""]

LocatedRecords == {LaunchEc2SpotResult(id, ip, key) :
                     id \in InstanceIds, ip \in PublicIps, key \in KeyFiles}

\* every slice LookupEc2Spot can return: distinct instances, any order
LocatedLists ==
    UNION {{s \in [1..n -> LocatedRecords] :
              \A i, j \in 1..n : i # j => s[i].InstanceId # s[j].InstanceId}
           : n \in 0..MaxInst}

\* every record LaunchEc2Spot can return on success: Ready (address known) or
\* Degraded (address empty); the key file is empty when no local file matches
LaunchedRecords == {LaunchEc2SpotResult(NewInstanceId, ip, key) :
                      ip \in PublicIps, key \in KeyFiles}

\* errors: kind, wrapped cause, the listed candidates, the id named
Error(kind, cause, cands, id) == [kind |-> kind, cause |-> cause, cands |-> cands, id |-> id]
NoErr == Error("nil", "nil", <<>>, "")

\* LookupEc2Spot not called yet
NotLocated == [err |-> "notcalled", results |-> <<>>]

NoExec == [prog |-> "", key |-> "", User |-> "", PublicIp |-> ""]

\* subCommandTab entries that go through the selection protocol, plus the
\* no-subcommand path ("")
SelectingCommands == {"", "ssh", "scp", "terminate", "image", "vpn"}

-----------------------------------------------------------------------------
(* selectOrLaunch *)

\* the canLaunch argument each entry point passes
CanLaunchMutant(c) == TRUE
CanLaunch(c) == c = ""

\* main.go: if err == nil && len(launchResults) == 0
NeedLaunchMutant(lookupErr, results) == lookupErr = "nil"
NeedLaunch(lookupErr, results) == lookupErr = "nil" /\ Len(results) = 0

\* main.go: if len(launchResults) > 1 && instanceId == ""
IsAmbiguousMutant(results, id) == Len(results) > 2 /\ id = ""
IsAmbiguous(results, id) == Len(results) > 1 /\ id = ""

\* the candidates the ambiguity error lists: "\n\t<id>:<ip>" per record
AmbiguityListMutant(results) ==
    [i \in 1..(Len(results) - 1) |-> <<results[i].InstanceId, results[i].PublicIp>>]
AmbiguityList(results) ==
    [i \in 1..Len(results) |-> <<results[i].InstanceId, results[i].PublicIp>>]

\* index of the first record the loop accepts, 0 if none
MatchIndexMutant(results, id) ==
    IF Len(results) = 0 THEN 0 ELSE 1
MatchIndex(results, id) ==
    LET hits == {i \in 1..Len(results) : id = "" \/ id = results[i].InstanceId}
    IN  IF hits = {} THEN 0 ELSE CHOOSE i \in hits : \A j \in hits : i <= j

\* main.go: fmt.Errorf("Could not find spotsh instance %v", instanceId)
NoSuchInstanceMutant(id) == Error("NoSuchInstance", "nil", <<>>, "")
NoSuchInstance(id) == Error("NoSuchInstance", "nil", <<>>, id)

\* main.go: if selectedInstance.LocalKeyFile == ""
KeyMissingMutant(rec) == FALSE
KeyMissing(rec) == rec.LocalKeyFile = ""

\* The whole of selectOrLaunch, given what the collaborators return:
\*   lookup   [err, results] from LookupEc2Spot
\*   prefsOk  whether newLaunchArgsFromPrefs succeeds
\*   launch   [err, result] from LaunchEc2Spot
\* Result: the local slice, the launcher invocations, the launcher's record,
\* the selected record, the error.
\* the errors LaunchEc2Spot returns: from createLaunchTemplate, from runInstance
LaunchErrors == {"TemplateFailed", "RunFailed"}

\* the stage's error passed over: selection goes on to the records
LookupLaunchErrorMutant(cause) == NoErr

\* fmt.Errorf("Failed to lookup/launch instance: %w", err)
LookupLaunchError(cause) == Error("LookupLaunch", cause, <<>>, "")

SelectOrLaunch(canLaunch, id, lookup, prefsOk, launch) ==
    LET need    == NeedLaunch(lookup.err, lookup.results)
        doLaunch == need /\ canLaunch /\ prefsOk
        results == IF doLaunch THEN Append(lookup.results, launch.result)
                   ELSE lookup.results
        stage1  == IF need /\ canLaunch /\ ~prefsOk THEN "prefs"
                   ELSE IF doLaunch THEN launch.err
                   ELSE IF need THEN "NoInstances"
                   ELSE lookup.err
        idx     == MatchIndex(results, id)
        base    == [results |-> results,
                    launchCount |-> IF doLaunch THEN 1 ELSE 0,
                    launched |-> IF doLaunch THEN launch.result ELSE NoRecord,
                    launcherErr |-> IF doLaunch THEN launch.err ELSE "nil",
                    prefs |-> IF need /\ canLaunch
                              THEN (IF prefsOk THEN "ok" ELSE "failed")
                              ELSE "notcalled",
                    selected |-> NoRecord, err |-> NoErr]
    IN  IF stage1 = "prefs"
          THEN [base EXCEPT !.err = Error("Prefs", "nil", <<>>, "")]
        ELSE IF stage1 # "nil"
          THEN [base EXCEPT !.err = LookupLaunchError(stage1)]
        ELSE IF IsAmbiguous(results, id)
          THEN [base EXCEPT !.err = Error("Ambiguous", "nil", AmbiguityList(results), "")]
        ELSE IF idx = 0
          THEN [base EXCEPT !.err = NoSuchInstance(id)]
        ELSE IF KeyMissing(results[idx])
          THEN [base EXCEPT !.err = Error("MissingKey", "nil", <<>>, results[idx].InstanceId)]
        ELSE [base EXCEPT !.selected = results[idx]]

-----------------------------------------------------------------------------
(* testSsh *)

\* testSsh: for retries := 8; retries >= 0; retries--
ProbeRetries == 8

\* what one testSshOnce (net.DialTimeout) can return
ProbeOutcomes == {"nil", "ECONNREFUSED", "timeout", "other"}

\* the flag value one loop iteration leaves behind
ClassifyTimeoutMutant(prev, outcome) == prev \/ outcome = "timeout"
ClassifyTimeout(prev, outcome) == outcome = "timeout"

\* every failed attempt is retried
KeepsRetryingMutant(outcome) == outcome # "nil"

\* whether the loop goes on to sleep and retry after this outcome
KeepsRetrying(outcome) == outcome \in {"ECONNREFUSED", "timeout"}

NoHist == [n |-> 0, sawTimeout |-> FALSE, onlyRetryable |-> TRUE, last |-> "none"]

\* sshCommon: fmt.Errorf("Failed to open ssh port: %w\n", err)
SshPortError(e) == Error("SshPort", e, <<>>, "")

\* the remediation error left out of the composed error
SshIngressErrorMutant(e, ferr) == Error("SshIngress", e, <<>>, "")

\* sshCommon: fmt.Errorf("Failed to ssh err:%w ingress_add_err:%v", err, ferr)
SshIngressError(e, ferr) == Error("SshIngress", e, <<>>, ferr)

\* the descriptions of the security group's ingress ranges, in the order
\* hasSshIngressRule visits them: none (a nil Description), one that contains
\* "ssh" and the host name, only one of the two, neither
RuleKinds == {"nodesc", "sshhost", "ssh", "host", "other"}

RuleLists == UNION {[1..n -> RuleKinds] : n \in 0..MaxRules}

\* a description that contains "ssh" or the host name
DescriptionMatchesMutant(kind) == kind \in {"sshhost", "ssh", "host"}

\* strings.Contains(*descr.Description, "ssh") &&
\* strings.Contains(*descr.Description, host)
DescriptionMatches(kind) == kind = "sshhost"

\* hasSshIngressRule: false when DescribeSecurityGroups fails; otherwise the
\* ranges are visited in order, a nil Description is dereferenced (panic), the
\* first matching one returns true
HasSshIngressRule(describeOk, rules) ==
    IF ~describeOk THEN "false"
    ELSE LET stops == {i \in 1..Len(rules) :
                          rules[i] = "nodesc" \/ DescriptionMatches(rules[i])}
         IN  IF stops = {} THEN "false"
             ELSE LET first == CHOOSE i \in stops : \A j \in stops : i <= j
                  IN  IF rules[first] = "nodesc" THEN "panic" ELSE "true"

\* addSshIngressRule: getExternalIP, then AuthorizeSecurityGroupIngress
AddSshIngressRule(ipOk, authorizeOk) ==
    IF ~ipOk THEN [called |-> FALSE, err |-> "externalIpFailed"]
    ELSE IF ~authorizeOk THEN [called |-> TRUE, err |-> "authorizeFailed"]
    ELSE [called |-> TRUE, err |-> "nil"]

NoIngress == [described |-> "no", matching |-> FALSE, found |-> "no",
              authorized |-> FALSE, added |-> FALSE, ferr |-> "nil"]

\* CheckOrAddSshIngressRule
CheckOrAddSshIngressRule(describeOk, rules, ipOk, authorizeOk) ==
    LET has == HasSshIngressRule(describeOk, rules)
        add == AddSshIngressRule(ipOk, authorizeOk)
        seen == [NoIngress EXCEPT
                   !.described = IF describeOk THEN "ok" ELSE "failed",
                   !.matching = \E i \in 1..Len(rules) : rules[i] = "sshhost",
                   !.found = has]
    IN  IF has = "panic" THEN [seen EXCEPT !.ferr = "panic"]
        ELSE IF has = "true" THEN seen
        ELSE [seen EXCEPT !.authorized = add.called,
                          !.added = add.err = "nil",
                          !.ferr = add.err]

\* sshCommon: if err != nil { if checkFirewall { ... } }
NeedsRemediationMutant(seq, e, flag) == e # "nil" /\ flag
NeedsRemediation(seq, e, flag) == seq = 1 /\ e # "nil" /\ flag

-----------------------------------------------------------------------------
(* Actions of one invocation *)

SelInit ==
    /\ cmd \in SelectingCommands
    /\ instanceId \in {"", AbsentInstanceId} \cup InstanceIds
    /\ flagOk \in BOOLEAN
    /\ pc = "main"
    /\ located = NotLocated
    /\ prefs = "notcalled"
    /\ launchResults = <<>>
    /\ launchCount = 0
    /\ launched = NoRecord
    /\ launcherErr = "nil"
    /\ selectedInstance = NoRecord
    /\ err = NoErr
    /\ retries = 0
    /\ checkFirewall = FALSE
    /\ probeErr = "nil"
    /\ probeSeq = 0
    /\ remediations = 0
    /\ ingress = NoIngress
    /\ seqHist = <<NoHist, NoHist>>
    /\ execd = NoExec
    /\ calls = <<>>
    /\ needVpnTeardown = "unread"
    /\ subErr = "nil"

SelIdle ==
    /\ cmd = ""
    /\ instanceId = ""
    /\ flagOk = TRUE
    /\ pc = "idle"
    /\ located = NotLocated
    /\ prefs = "notcalled"
    /\ launchResults = <<>>
    /\ launchCount = 0
    /\ launched = NoRecord
    /\ launcherErr = "nil"
    /\ selectedInstance = NoRecord
    /\ err = NoErr
    /\ retries = 0
    /\ checkFirewall = FALSE
    /\ probeErr = "nil"
    /\ probeSeq = 0
    /\ remediations = 0
    /\ ingress = NoIngress
    /\ seqHist = <<NoHist, NoHist>>
    /\ execd = NoExec
    /\ calls = <<>>
    /\ needVpnTeardown = "unread"
    /\ subErr = "nil"

probeVars == <<retries, checkFirewall, probeErr, probeSeq, remediations, ingress,
               seqHist>>

\* what only imageMain and terminateMain change after the selection
subVars == <<calls, needVpnTeardown, subErr>>

\* the default path going straight to the exec
AfterSelectMutant(c) ==
    IF c = "" THEN "execSsh"
    ELSE IF c = "ssh" THEN "testSsh"
    ELSE IF c = "scp" THEN "scpExec"
    ELSE "selected"

\* where each entry point continues once a record is selected
AfterSelect(c) ==
    IF c \in {"", "ssh"} THEN "testSsh"
    ELSE IF c = "scp" THEN "scpExec"
    ELSE "selected"

\* selectOrLaunchWithArgs / selectOrLaunch, called by the entry point of cmd
SelectOrLaunchStep ==
    /\ pc = "main"
    /\ IF ~flagOk
         THEN /\ pc' = "failed"
              /\ err' = Error("FlagParse", "nil", <<>>, "")
              /\ UNCHANGED <<located, prefs, launchResults, launchCount, launched,
                             launcherErr, selectedInstance, probeVars>>
         ELSE \E lookup \in ([err : {"nil"}, results : LocatedLists]
                              \cup {[err |-> "LookupFailed", results |-> <<>>]}),
                 prefsOk \in BOOLEAN,
                 launch \in ([err : {"nil"}, result : LaunchedRecords]
                             \cup [err : LaunchErrors, result : LaunchedRecords]) :
              LET r == SelectOrLaunch(CanLaunch(cmd), instanceId, lookup, prefsOk, launch)
              IN  /\ located' = lookup
                  /\ prefs' = r.prefs
                  /\ launchResults' = r.results
                  /\ launchCount' = launchCount + r.launchCount
                  /\ launched' = r.launched
                  /\ launcherErr' = r.launcherErr
                  /\ selectedInstance' = r.selected
                  /\ err' = r.err
                  /\ pc' = IF r.err # NoErr THEN "failed" ELSE AfterSelect(cmd)
                  /\ probeSeq' = IF r.err = NoErr /\ AfterSelect(cmd) = "testSsh"
                                 THEN 1 ELSE 0
                  /\ retries' = IF r.err = NoErr /\ AfterSelect(cmd) = "testSsh"
                                THEN ProbeRetries ELSE 0
                  /\ UNCHANGED <<checkFirewall, probeErr, remediations, ingress, seqHist>>
    /\ UNCHANGED <<cmd, instanceId, flagOk, execd>>
    /\ UNCHANGED subVars
    /\ UNCHANGED <<regionVars, lookupVars, priceVars, launchVars, osVars, scpVars, cheapVars, sgVars>>

\* one iteration of testSsh's loop; on the last one testSsh returns and
\* sshCommon decides between remediation, failure and exec
TestSshOnce ==
    /\ pc = "testSsh"
    /\ \E outcome \in ProbeOutcomes :
         LET flag  == ClassifyTimeout(checkFirewall, outcome)
             again == KeepsRetrying(outcome) /\ retries - 1 >= 0
             h     == seqHist[probeSeq]
         IN  /\ probeErr' = outcome
             /\ checkFirewall' = flag
             /\ seqHist' = [seqHist EXCEPT ![probeSeq] =
                              [n |-> h.n + 1,
                               sawTimeout |-> h.sawTimeout \/ outcome = "timeout",
                               onlyRetryable |-> h.onlyRetryable
                                    /\ outcome \in {"ECONNREFUSED", "timeout"},
                               last |-> outcome]]
             /\ IF again
                  THEN /\ retries' = retries - 1
                       /\ pc' = "testSsh"
                       /\ err' = err
                  ELSE /\ retries' = retries
                       /\ IF outcome = "nil"
                            THEN pc' = "execSsh" /\ err' = err
                          ELSE IF NeedsRemediation(probeSeq, outcome, flag)
                            THEN pc' = "remediate" /\ err' = err
                          ELSE /\ pc' = "failed"
                               /\ err' = SshPortError(outcome)
    /\ UNCHANGED <<cmd, instanceId, flagOk, located, prefs, launchResults, launchCount,
                   launched, launcherErr, selectedInstance, probeSeq, remediations,
                   ingress, execd>>
    /\ UNCHANGED subVars
    /\ UNCHANGED <<regionVars, lookupVars, priceVars, launchVars, osVars, scpVars, cheapVars, sgVars>>

\* sshCommon: CheckOrAddSshIngressRule, then the one re-run of testSsh
Remediate ==
    /\ pc = "remediate"
    /\ remediations' = remediations + 1
    /\ \E describeOk \in BOOLEAN, rules \in RuleLists, ipOk \in BOOLEAN,
          authorizeOk \in BOOLEAN :
         LET r == CheckOrAddSshIngressRule(describeOk, rules, ipOk, authorizeOk)
         IN  /\ ingress' = r
             /\ IF r.ferr = "panic"
                  THEN /\ pc' = "panicked"
                       /\ UNCHANGED <<retries, probeSeq, err>>
                ELSE IF r.ferr # "nil"
                  THEN /\ pc' = "failed"
                       /\ err' = SshIngressError(probeErr, r.ferr)
                       /\ UNCHANGED <<retries, probeSeq>>
                ELSE /\ pc' = "testSsh"
                     /\ probeSeq' = 2
                     /\ retries' = ProbeRetries
                     /\ err' = err
    /\ UNCHANGED <<cmd, instanceId, flagOk, located, prefs, launchResults, launchCount,
                   launched, launcherErr, selectedInstance, checkFirewall, probeErr, seqHist, execd>>
    /\ UNCHANGED subVars
    /\ UNCHANGED <<regionVars, lookupVars, priceVars, launchVars, osVars, scpVars, cheapVars, sgVars>>

\* the process image handed to syscall.Exec
ExecOf(prog, rec) ==
    [prog |-> prog, key |-> rec.LocalKeyFile, User |-> rec.User, PublicIp |-> rec.PublicIp]

\* execSsh: syscall.Exec("/usr/bin/ssh", ...)
ExecSsh ==
    /\ pc = "execSsh"
    /\ \E ok \in BOOLEAN :
         IF ok THEN /\ execd' = ExecOf("ssh", selectedInstance)
                    /\ pc' = "exec"
                    /\ err' = err
               ELSE /\ execd' = execd
                    /\ pc' = "failed"
                    /\ err' = Error("Exec", "nil", <<>>, "")
    /\ UNCHANGED <<cmd, instanceId, flagOk, located, prefs, launchResults, launchCount,
                   launched, launcherErr, selectedInstance, probeVars>>
    /\ UNCHANGED subVars
    /\ UNCHANGED <<regionVars, lookupVars, priceVars, launchVars, osVars, scpVars, cheapVars, sgVars>>

\* scpMain after selection: syscall.Exec("/usr/bin/scp", ...), no probe
ScpExec ==
    /\ pc = "scpExec"
    /\ \E ok \in BOOLEAN :
         IF ok THEN /\ execd' = ExecOf("scp", selectedInstance)
                    /\ pc' = "exec"
                    /\ err' = err
               ELSE /\ execd' = execd
                    /\ pc' = "failed"
                    /\ err' = Error("Exec", "nil", <<>>, "")
    /\ UNCHANGED <<cmd, instanceId, flagOk, located, prefs, launchResults, launchCount,
                   launched, launcherErr, selectedInstance, probeVars>>
    /\ UNCHANGED subVars
    /\ UNCHANGED <<regionVars, lookupVars, priceVars, launchVars, osVars, scpVars, cheapVars, sgVars>>

\* a call made after the selection
Call(op, id, ok) == [op |-> op, id |-> id, ok |-> ok]

\* the instance id imageMain hands to CreateImage: the record's
CreateImageArgMutant(flagId, rec) == rec.InstanceId

\* imageMain: iaws.CreateImage(awsCfg, instanceId, name, desc), instanceId
\* being the variable the --instance-id flag was parsed into
CreateImageArg(flagId, rec) == flagId

\* imageMain after the selection
ImageCreate ==
    /\ pc = "selected" /\ cmd = "image"
    /\ \E ok \in BOOLEAN :
         /\ calls' = Append(calls, Call("CreateImage",
                                        CreateImageArg(instanceId, selectedInstance), ok))
         /\ subErr' = IF ok THEN "nil" ELSE "Failed to create AMI"
         /\ pc' = IF ok THEN "subDone" ELSE "subFailed"
    /\ UNCHANGED <<cmd, instanceId, flagOk, located, prefs, launchResults, launchCount,
                   launched, launcherErr, selectedInstance, err, probeVars, execd,
                   needVpnTeardown>>
    /\ UNCHANGED <<regionVars, lookupVars, priceVars, launchVars, osVars, scpVars, cheapVars,
                   sgVars>>

\* the values the instance's spotsh.vpn tag can have ("" when it has none)
VpnTagValues == {"true", "false", ""}

\* the teardown is never run
NeedsTeardownMutant(v) == FALSE

\* terminateMain: if needVpnTeardown == "true"
NeedsTeardown(v) == v = "true"

\* terminateMain: GetTagValue of the selected instance's spotsh.vpn tag
TerminateGetTag ==
    /\ pc = "selected" /\ cmd = "terminate"
    /\ \E ok \in BOOLEAN, v \in VpnTagValues :
         /\ calls' = Append(calls, Call("GetTagValue", selectedInstance.InstanceId, ok))
         /\ IF ~ok
              THEN /\ v = ""
                   /\ subErr' = "Failed to get vpn tag value"
                   /\ pc' = "subFailed"
                   /\ needVpnTeardown' = needVpnTeardown
              ELSE /\ needVpnTeardown' = v
                   /\ subErr' = subErr
                   /\ pc' = IF NeedsTeardown(v) THEN "stopVpn" ELSE "terminate"
    /\ UNCHANGED <<cmd, instanceId, flagOk, located, prefs, launchResults, launchCount,
                   launched, launcherErr, selectedInstance, err, probeVars, execd>>
    /\ UNCHANGED <<regionVars, lookupVars, priceVars, launchVars, osVars, scpVars, cheapVars,
                   sgVars>>

\* stopVpnClient: the teardown script is written and run, then the tag is
\* set to "false"; the first step that fails ends it
StopVpnClient ==
    /\ pc = "stopVpn"
    /\ \E e \in {"nil", "TempDir", "WriteFile", "runLocal", "UpdateTag"} :
         LET ran == IF e \in {"TempDir", "WriteFile"} THEN <<>>
                    ELSE <<Call("runLocal teardown", "", e # "runLocal")>>
             upd == IF e \in {"nil", "UpdateTag"}
                      THEN <<Call("UpdateTag false", selectedInstance.InstanceId, e = "nil")>>
                      ELSE <<>>
         IN  /\ calls' = calls \o ran \o upd
             /\ subErr' = IF e = "nil" THEN subErr ELSE e
             /\ pc' = IF e = "nil" THEN "terminate" ELSE "subFailed"
    /\ UNCHANGED <<cmd, instanceId, flagOk, located, prefs, launchResults, launchCount,
                   launched, launcherErr, selectedInstance, err, probeVars, execd,
                   needVpnTeardown>>
    /\ UNCHANGED <<regionVars, lookupVars, priceVars, launchVars, osVars, scpVars, cheapVars,
                   sgVars>>

\* terminateMain: return iaws.TerminateInstance(awsCfg, selectedInstance.InstanceId)
TerminateInstance ==
    /\ pc = "terminate"
    /\ \E ok \in BOOLEAN :
         /\ calls' = Append(calls, Call("TerminateInstance", selectedInstance.InstanceId, ok))
         /\ subErr' = IF ok THEN subErr ELSE "TerminateInstances"
         /\ pc' = IF ok THEN "subDone" ELSE "subFailed"
    /\ UNCHANGED <<cmd, instanceId, flagOk, located, prefs, launchResults, launchCount,
                   launched, launcherErr, selectedInstance, err, probeVars, execd,
                   needVpnTeardown>>
    /\ UNCHANGED <<regionVars, lookupVars, priceVars, launchVars, osVars, scpVars, cheapVars,
                   sgVars>>

NextSel ==
    \/ SelectOrLaunchStep
    \/ TestSshOnce
    \/ Remediate
    \/ ExecSsh
    \/ ScpExec
    \/ ImageCreate
    \/ TerminateGetTag
    \/ StopVpnClient
    \/ TerminateInstance


-----------------------------------------------------------------------------
(* OperatingSystem (types.go) *)

OsInvalid == 7

\* osTab, indexed from 1: osTab[v + 1] is the name of value v
osTab == <<"", "ubuntu22.04", "amzn2", "amzn2023", "amzn2023min", "debian12",
           "ubuntu24.04", "invalid">>

\* OsFromString: if !ok { return OsInvalid }
UnknownNameMutant(osStr) == 0
UnknownName(osStr) == OsInvalid

\* osMap lookup with the OsInvalid fallback
OsFromString(osStr) ==
    IF \E i \in 1..Len(osTab) : osTab[i] = osStr
      THEN (CHOOSE i \in 1..Len(osTab) : osTab[i] = osStr) - 1
      ELSE UnknownName(osStr)

\* String(): idx > len(osTab) falls back to OsInvalid; idx = len(osTab) passes
\* that test and indexes osTab out of range, which panics
StringPanics(v) == v = Len(osTab)

OsStringMutant(v) == osTab[OsInvalid + 1]
OsString(v) == IF v > Len(osTab) THEN osTab[OsInvalid + 1] ELSE osTab[v + 1]

\* the keys of osMap after init() has run over osTab
osMapKeys == {osTab[i] : i \in 1..Len(osTab)}

\* the OperatingSystem values converted: the small ones and a very large one
OsValues == 0..MaxOsValue \cup {1000000}

\* the strings converted: the names of the table and others
OsNames == osMapKeys \cup {"deadbeef", "AMZN2023", "amzn"}

OsInit ==
    /\ osVal \in OsValues
    /\ osName \in OsNames
    /\ osValStr = ""
    /\ osValBack = 0
    /\ osNameVal = 0
    /\ osNameBack = ""
    /\ ospc = <<"String", "OsFromString">>

OsIdle ==
    /\ osVal = 0
    /\ osName = ""
    /\ osValStr = ""
    /\ osValBack = 0
    /\ osNameVal = 0
    /\ osNameBack = ""
    /\ ospc = <<"idle", "idle">>

\* osVal.String()
StringStep ==
    /\ ospc[1] = "String"
    /\ IF StringPanics(osVal)
         THEN ospc' = [ospc EXCEPT ![1] = "panicked"] /\ osValStr' = osValStr
         ELSE ospc' = [ospc EXCEPT ![1] = "OsFromString"] /\ osValStr' = OsString(osVal)
    /\ UNCHANGED <<osVal, osValBack, osName, osNameVal, osNameBack>>
    /\ UNCHANGED <<selVars, regionVars, lookupVars, priceVars, launchVars, scpVars, cheapVars, sgVars>>

\* OsFromString(osVal.String())
BackFromStringStep ==
    /\ ospc[1] = "OsFromString"
    /\ osValBack' = OsFromString(osValStr)
    /\ ospc' = [ospc EXCEPT ![1] = "done"]
    /\ UNCHANGED <<osVal, osValStr, osName, osNameVal, osNameBack>>
    /\ UNCHANGED <<selVars, regionVars, lookupVars, priceVars, launchVars, scpVars, cheapVars, sgVars>>

\* OsFromString(osName)
FromStringStep ==
    /\ ospc[2] = "OsFromString"
    /\ osNameVal' = OsFromString(osName)
    /\ ospc' = [ospc EXCEPT ![2] = "String"]
    /\ UNCHANGED <<osVal, osValStr, osValBack, osName, osNameBack>>
    /\ UNCHANGED <<selVars, regionVars, lookupVars, priceVars, launchVars, scpVars, cheapVars, sgVars>>

\* OsFromString(osName).String()
BackToStringStep ==
    /\ ospc[2] = "String"
    /\ IF StringPanics(osNameVal)
         THEN ospc' = [ospc EXCEPT ![2] = "panicked"] /\ osNameBack' = osNameBack
         ELSE ospc' = [ospc EXCEPT ![2] = "done"] /\ osNameBack' = OsString(osNameVal)
    /\ UNCHANGED <<osVal, osValStr, osValBack, osName, osNameVal>>
    /\ UNCHANGED <<selVars, regionVars, lookupVars, priceVars, launchVars, scpVars, cheapVars, sgVars>>

NextOs ==
    \/ StringStep
    \/ BackFromStringStep
    \/ FromStringStep
    \/ BackToStringStep

-----------------------------------------------------------------------------
(* lookupEc2SpotOneRegion: the scan of one region's instances *)

\* instance types, availability zones and prices of the price history
ITypes == {"c5.large", "c6i.large"}
AzSuffixes == {"a", "b"}
PriceValues == {1, 2}

\* a LookupEc2SpotPriceAz; NoPoint stands for a nil pointer / missing map key
PricePoint(az, price) == [AzName |-> az, CurPrice |-> price]
NoPoint == PricePoint("", 0)

UserTagKey == "spotsh.user"
OsTagKey == "spotsh.os"

RegionPool == <<"us-east-1", "us-east-2", "us-west-1", "us-west-2">>
RegionIds == <<<<"i-a1", "i-a2", "i-a3", "i-a4">>, <<"i-b1", "i-b2", "i-b3", "i-b4">>,
               <<"i-c1", "i-c2", "i-c3", "i-c4">>, <<"i-d1", "i-d2", "i-d3", "i-d4">>>>

Tag(k, v) == [Key |-> k, Value |-> v]

\* the tag lists an instance can carry (keys are unique per instance)
UserTags == {<<>>, <<Tag(UserTagKey, "ec2-user")>>, <<Tag(UserTagKey, "admin")>>}
OsTags == {<<>>, <<Tag(OsTagKey, "amzn2023")>>, <<Tag(OsTagKey, "debian12")>>}
TagLists == {u \o o : u \in UserTags, o \in OsTags}

InstanceStates == {"running", "stopped"}

Instance(id, st, tags) == [InstanceId |-> id, State |-> st, Tags |-> tags]

\* every list of n instances region number ri can report
InstanceLists(ri, n, tagLists) ==
    {[k \in 1..n |-> Instance(RegionIds[ri][k], f[k][1], f[k][2])] :
       f \in [1..n -> InstanceStates \X tagLists]}

HasTag(inst, key) == \E i \in 1..Len(inst.Tags) : inst.Tags[i].Key = key

\* the record the locator builds for an instance
LocatedResult(id, usr, osStr) == [InstanceId |-> id, User |-> usr, Os |-> OsFromString(osStr)]

NoScan == [foundSpotShTag |-> FALSE, user |-> "", os |-> "", results |-> <<>>, iTypes |-> 0]

\* spotinst.go: foundSpotShTag = false, at the top of each instance's tag loop
ResetFoundMutant(prev) == prev
ResetFound(prev) == FALSE

\* spotinst.go: if inst.State.Name != types.InstanceStateNameRunning { continue }
IsRunningMutant(inst) == TRUE
IsRunning(inst) == inst.State = "running"

\* the tag loop of one instance, from tag number i on
RECURSIVE TagLoop(_, _, _)
TagLoop(st, tags, i) ==
    IF i > Len(tags) THEN st
    ELSE IF tags[i].Key = UserTagKey
      THEN TagLoop([st EXCEPT !.foundSpotShTag = TRUE, !.user = tags[i].Value], tags, i + 1)
    ELSE IF tags[i].Key = OsTagKey
      THEN TagLoop([st EXCEPT !.os = tags[i].Value], tags, i + 1)
    ELSE TagLoop(st, tags, i + 1)

\* one iteration of the instance loop of aws/spotinst.go
ScanInstance(st, inst) ==
    IF ~IsRunning(inst) THEN st
    ELSE LET t == TagLoop([st EXCEPT !.foundSpotShTag = ResetFound(st.foundSpotShTag)],
                          inst.Tags, 1)
         IN  IF ~t.foundSpotShTag THEN t
             ELSE [t EXCEPT !.results = Append(t.results,
                                               LocatedResult(inst.InstanceId, t.user, t.os)),
                            !.iTypes = t.iTypes + 1]

\* one iteration of the instance loop of internal/aws/spotinst.go: a record
\* per tag whose key is the ownership key, on a running instance
RECURSIVE LegacyTagLoop(_, _, _)
LegacyTagLoop(st, inst, i) ==
    IF i > Len(inst.Tags) THEN st
    ELSE IF ~IsRunning(inst) \/ inst.Tags[i].Key # UserTagKey
      THEN LegacyTagLoop(st, inst, i + 1)
    ELSE LegacyTagLoop([st EXCEPT !.results =
                            Append(st.results,
                                   [InstanceId |-> inst.InstanceId,
                                    User |-> inst.Tags[i].Value, Os |-> 0]),
                                  !.iTypes = st.iTypes + 1],
                       inst, i + 1)

LegacyScanInstance(st, inst) == LegacyTagLoop(st, inst, 1)

\* the whole instance loop over a list, from instance number i on
RECURSIVE ScanAll(_, _, _)
ScanAll(st, insts, i) ==
    IF i > Len(insts) THEN st ELSE ScanAll(ScanInstance(st, insts[i]), insts, i + 1)

\* the region the scanned client is configured for (awsCfg.Region)
ScanRegion == RegionPool[1]

\* the AZ getAzNameFromSubnetId yields for an instance's subnet: the zone of
\* the subnet, or "" (the map's zero value) when DescribeSubnets did not list it
SubnetAzs == AzSuffixes \cup {""}

\* the part of a LaunchEc2SpotResult the back-fill reads and writes
Priced(t, az, price) == [InstanceType |-> t, AzName |-> az, CurrentPrice |-> price]

\* iTypes as the loop appended them
ITypesOf(recs) == [k \in 1..Len(recs) |-> recs[k].InstanceType]

\* the price query is made whatever was found
QueryNeededMutant(n) == TRUE

\* spotinst.go: if len(iTypes) == 0 { return launchResults, nil }
QueryNeeded(n) == n # 0

\* the current price of a type in an AZ: a different one for every key
HistoryPrice(t, a) ==
    (IF t = "c5.large" THEN 0 ELSE 2) + (IF a = "a" THEN 1 ELSE 2)

\* what a successful LookupEc2SpotPrices can hold for the region: per queried
\* type, a price point for each AZ the price history has an entry for
AzTables(types) ==
    LET tset == {types[k] : k \in 1..Len(types)}
    IN  {[t \in tset |-> [a \in f[t] |-> PricePoint(a, HistoryPrice(t, a))]] :
            f \in [tset -> SUBSET AzSuffixes]}

\* a nil *LookupEc2SpotPriceAz
NoPrice == -1

\* every record gets the price of the first record's key
BackFillPriceMutant(tab, recs, k) ==
    IF recs[1].AzName \in DOMAIN tab[recs[1].InstanceType]
      THEN tab[recs[1].InstanceType][recs[1].AzName].CurPrice
      ELSE NoPrice

\* spotPriceResult.InstanceTypes[iType].Regions[reg].Azs[azName].CurPrice for
\* record k, or NoPrice when the map holds no point for azName
BackFillPrice(tab, recs, k) ==
    IF recs[k].AzName \in DOMAIN tab[recs[k].InstanceType]
      THEN tab[recs[k].InstanceType][recs[k].AzName].CurPrice
      ELSE NoPrice

RegionInit ==
    /\ locator \in {"aws", "internal/aws"}
    /\ descInstances \in UNION {InstanceLists(1, n, TagLists) : n \in 0..MaxScan}
    /\ rpc = "describe"
    /\ scanIdx = 0
    /\ scan = NoScan
    /\ rerr = "nil"
    /\ priced = <<>>
    /\ priceQueries = <<>>
    /\ spotPriceAzs = <<>>

RegionIdle ==
    /\ locator = "aws"
    /\ descInstances = <<>>
    /\ rpc = "idle"
    /\ scanIdx = 0
    /\ scan = NoScan
    /\ rerr = "nil"
    /\ priced = <<>>
    /\ priceQueries = <<>>
    /\ spotPriceAzs = <<>>

\* DescribeInstances and LookupKeys: either may fail, ending the call
DescribeStep ==
    /\ rpc = "describe"
    /\ \E e \in {"nil", "DescribeInstances", "LookupKeys"} :
         /\ rerr' = e
         /\ rpc' = IF e = "nil" THEN "scan" ELSE "returned"
    /\ UNCHANGED <<locator, descInstances, scanIdx, scan, priced, priceQueries, spotPriceAzs>>
    /\ UNCHANGED <<selVars, lookupVars, priceVars, launchVars, osVars, scpVars, cheapVars, sgVars>>

\* one instance of the loop; getAzNameFromSubnetId may fail for an instance
\* the filter accepted, which ends the call with the records gathered so far
ScanStep ==
    /\ rpc = "scan"
    /\ scanIdx < Len(descInstances)
    /\ LET inst == descInstances[scanIdx + 1]
           st   == IF locator = "aws" THEN ScanInstance(scan, inst)
                   ELSE LegacyScanInstance(scan, inst)
       IN  \E azErr \in BOOLEAN :
             IF azErr /\ st.iTypes > scan.iTypes
               THEN /\ rerr' = "DescribeSubnets"
                    /\ rpc' = "returned"
                    /\ scan' = [st EXCEPT !.results = scan.results, !.iTypes = scan.iTypes]
                    /\ scanIdx' = scanIdx
                    /\ priced' = priced
               ELSE /\ rerr' = rerr
                    /\ rpc' = rpc
                    /\ scan' = st
                    /\ scanIdx' = scanIdx + 1
                    /\ IF st.iTypes > scan.iTypes
                         THEN \E t \in ITypes, az \in SubnetAzs :
                                priced' = Append(priced, Priced(t, az, 0))
                         ELSE priced' = priced
    /\ UNCHANGED <<locator, descInstances, priceQueries, spotPriceAzs>>
    /\ UNCHANGED <<selVars, lookupVars, priceVars, launchVars, osVars, scpVars, cheapVars, sgVars>>

\* after the loop: return at once when nothing was found, else query the
\* prices of the types found
PriceStep ==
    /\ rpc = "scan"
    /\ scanIdx = Len(descInstances)
    /\ IF ~QueryNeeded(scan.iTypes)
         THEN /\ rerr' = rerr
              /\ rpc' = "returned"
              /\ UNCHANGED <<priced, priceQueries, spotPriceAzs>>
         ELSE /\ priceQueries' = Append(priceQueries,
                                        [Region |-> ScanRegion, InstanceTypes |-> ITypesOf(priced)])
              /\ \E e \in {"nil", "LookupEc2SpotPrices"} :
                   IF e # "nil"
                     THEN /\ rerr' = e
                          /\ rpc' = "returned"
                          /\ UNCHANGED <<priced, spotPriceAzs>>
                     ELSE \E tab \in AzTables(ITypesOf(priced)) :
                            /\ spotPriceAzs' = tab
                            /\ rerr' = rerr
                            /\ IF \E k \in 1..Len(priced) : BackFillPrice(tab, priced, k) = NoPrice
                                 THEN rpc' = "panicked" /\ priced' = priced
                                 ELSE /\ rpc' = "returned"
                                      /\ priced' = [k \in 1..Len(priced) |->
                                                      [priced[k] EXCEPT !.CurrentPrice =
                                                          BackFillPrice(tab, priced, k)]]
    /\ UNCHANGED <<locator, descInstances, scanIdx, scan>>
    /\ UNCHANGED <<selVars, lookupVars, priceVars, launchVars, osVars, scpVars, cheapVars, sgVars>>

NextRegion ==
    \/ DescribeStep
    \/ ScanStep
    \/ PriceStep

-----------------------------------------------------------------------------
(* LookupEc2Spot: one worker per region, merged under resultLock *)

Regions == {RegionPool[k] : k \in 1..MaxRegions}
RegionIndex(r) == CHOOSE k \in 1..MaxRegions : RegionPool[k] = r

\* the tag lists of the instances of the account searched as a whole
OwnedOrNot == {<<>>, <<Tag(UserTagKey, "ec2-user")>>}

RegionInstanceLists(r) ==
    {l \in UNION {InstanceLists(RegionIndex(r), n, OwnedOrNot) : n \in 0..MaxRegionInst} :
       \A k \in 1..Len(l) : l[k].State = "running" \/ HasTag(l[k], UserTagKey)}

NotReturned == [results |-> <<>>, err |-> "pending"]

\* resultLock.Lock() proceeds only when nobody holds the lock
CanLockMutant(holder) == TRUE
CanLock(holder) == holder = "free"

\* errgroup keeps the first error returned to it
FirstError(cur, e) == IF cur = "nil" THEN e ELSE cur

LookupInit ==
    /\ regionArg \in {"all"} \cup Regions
    /\ cloud \in {c \in [Regions -> UNION {RegionInstanceLists(r) : r \in Regions}] :
                    \A r \in Regions : c[r] \in RegionInstanceLists(r)}
    /\ lpc = "start"
    /\ regionList = <<>>
    /\ wpc = [r \in Regions |-> "idle"]
    /\ wres = [r \in Regions |-> <<>>]
    /\ wsnap = [r \in Regions |-> <<>>]
    /\ resultLock = "free"
    /\ resultsAllRegions = <<>>
    /\ wgErr = "nil"
    /\ lret = NotReturned

LookupIdle ==
    /\ regionArg = "all"
    /\ cloud = [r \in Regions |-> <<>>]
    /\ lpc = "idle"
    /\ regionList = <<>>
    /\ wpc = [r \in Regions |-> "idle"]
    /\ wres = [r \in Regions |-> <<>>]
    /\ wsnap = [r \in Regions |-> <<>>]
    /\ resultLock = "free"
    /\ resultsAllRegions = <<>>
    /\ wgErr = "nil"
    /\ lret = NotReturned

\* the region list, then one wg.Go per region; getRegions may fail
LookupStart ==
    /\ lpc = "start"
    /\ IF regionArg = "all"
         THEN \E e \in {"nil", "getRegions"} :
                IF e = "nil"
                  THEN /\ regionList' = [k \in 1..MaxRegions |-> RegionPool[k]]
                       /\ wpc' = [r \in Regions |-> "run"]
                       /\ lpc' = "wait"
                       /\ lret' = lret
                  ELSE /\ lret' = [results |-> <<>>, err |-> e]
                       /\ lpc' = "returned"
                       /\ UNCHANGED <<regionList, wpc>>
         ELSE /\ regionList' = <<regionArg>>
              /\ wpc' = [wpc EXCEPT ![regionArg] = "run"]
              /\ lpc' = "wait"
              /\ lret' = lret
    /\ UNCHANGED <<regionArg, cloud, wres, wsnap, resultLock, resultsAllRegions, wgErr>>
    /\ UNCHANGED <<selVars, regionVars, priceVars, launchVars, osVars, scpVars, cheapVars, sgVars>>

\* the worker's own part: load the region's config and list its instances
WorkerRun(r) ==
    /\ wpc[r] = "run"
    /\ \E e \in {"nil", "LoadDefaultConfig", "lookupEc2SpotOneRegion"} :
         IF e = "nil"
           THEN /\ wres' = [wres EXCEPT ![r] = ScanAll(NoScan, cloud[r], 1).results]
                /\ wpc' = [wpc EXCEPT ![r] = "lock"]
                /\ wgErr' = wgErr
           ELSE /\ wgErr' = FirstError(wgErr, <<e, r>>)
                /\ wpc' = [wpc EXCEPT ![r] = "done"]
                /\ wres' = wres
    /\ UNCHANGED <<regionArg, cloud, lpc, regionList, wsnap, resultLock,
                   resultsAllRegions, lret>>
    /\ UNCHANGED <<selVars, regionVars, priceVars, launchVars, osVars, scpVars, cheapVars, sgVars>>

\* resultLock.Lock()
WorkerLock(r) ==
    /\ wpc[r] = "lock"
    /\ CanLock(resultLock)
    /\ resultLock' = r
    /\ wpc' = [wpc EXCEPT ![r] = "append"]
    /\ UNCHANGED <<regionArg, cloud, lpc, regionList, wres, wsnap, resultsAllRegions,
                   wgErr, lret>>
    /\ UNCHANGED <<selVars, regionVars, priceVars, launchVars, osVars, scpVars, cheapVars, sgVars>>

\* append(resultsAllRegions, resultsOneRegion...): the read of the slice
WorkerAppendRead(r) ==
    /\ wpc[r] = "append"
    /\ wsnap' = [wsnap EXCEPT ![r] = resultsAllRegions]
    /\ wpc' = [wpc EXCEPT ![r] = "store"]
    /\ UNCHANGED <<regionArg, cloud, lpc, regionList, wres, resultLock,
                   resultsAllRegions, wgErr, lret>>
    /\ UNCHANGED <<selVars, regionVars, priceVars, launchVars, osVars, scpVars, cheapVars, sgVars>>

\* resultsAllRegions = append(...): the store of the grown slice
WorkerAppendStore(r) ==
    /\ wpc[r] = "store"
    /\ resultsAllRegions' = wsnap[r] \o wres[r]
    /\ wpc' = [wpc EXCEPT ![r] = "unlock"]
    /\ UNCHANGED <<regionArg, cloud, lpc, regionList, wres, wsnap, resultLock,
                   wgErr, lret>>
    /\ UNCHANGED <<selVars, regionVars, priceVars, launchVars, osVars, scpVars, cheapVars, sgVars>>

\* resultLock.Unlock(); return nil
WorkerUnlock(r) ==
    /\ wpc[r] = "unlock"
    /\ resultLock' = "free"
    /\ wpc' = [wpc EXCEPT ![r] = "done"]
    /\ UNCHANGED <<regionArg, cloud, lpc, regionList, wres, wsnap, resultsAllRegions,
                   wgErr, lret>>
    /\ UNCHANGED <<selVars, regionVars, priceVars, launchVars, osVars, scpVars, cheapVars, sgVars>>

\* spotinst.go: if err != nil { return nil, err }; return resultsAllRegions, nil
WaitResultsMutant(e, acc) == acc
WaitResults(e, acc) == IF e # "nil" THEN <<>> ELSE acc

\* wg.Wait() returns once every worker has returned
LookupWait ==
    /\ lpc = "wait"
    /\ \A k \in 1..Len(regionList) : wpc[regionList[k]] = "done"
    /\ lret' = [results |-> WaitResults(wgErr, resultsAllRegions), err |-> wgErr]
    /\ lpc' = "returned"
    /\ UNCHANGED <<regionArg, cloud, regionList, wpc, wres, wsnap, resultLock,
                   resultsAllRegions, wgErr>>
    /\ UNCHANGED <<selVars, regionVars, priceVars, launchVars, osVars, scpVars, cheapVars, sgVars>>

NextLookup ==
    \/ LookupStart
    \/ \E r \in Regions : WorkerRun(r)
    \/ \E r \in Regions : WorkerLock(r)
    \/ \E r \in Regions : WorkerAppendRead(r)
    \/ \E r \in Regions : WorkerAppendStore(r)
    \/ \E r \in Regions : WorkerUnlock(r)
    \/ LookupWait

-----------------------------------------------------------------------------
(* LookupEc2SpotPrices: the PriceTable and its cheapest pointers *)

\* the table as LookupEc2SpotPrices builds it before starting the workers
EmptyTable(types, regs) ==
    [InstanceTypes |->
        [t \in types |->
            [Regions |-> [r \in regs |-> [Azs |-> [a \in AzSuffixes |-> NoPoint],
                                          CheapestAz |-> NoPoint]],
             CheapestRegion |-> "nil"]],
     CheapestIType |-> "nil"]

NoTable == [InstanceTypes |-> <<>>, CheapestIType |-> "nil"]

\* price.go: lookupAz.CurPrice < <current cheapest>.CurPrice
CheaperMutant(p, cur) == p.CurPrice <= cur.CurPrice
Cheaper(p, cur) == p.CurPrice < cur.CurPrice

\* result.InstanceTypes[iType].Regions[curReg].Azs[azName] = lookupAz
StorePoint(res, t, r, p) ==
    [res EXCEPT !.InstanceTypes[t].Regions[r].Azs[p.AzName] = p]

\* setCheapest, its three assignments in order
SetCheapest(res, t, r, p) ==
    LET reg  == res.InstanceTypes[t].Regions[r]
        res1 == IF reg.CheapestAz = NoPoint \/ Cheaper(p, reg.CheapestAz)
                  THEN [res EXCEPT !.InstanceTypes[t].Regions[r].CheapestAz = p]
                  ELSE res
        it1  == res1.InstanceTypes[t]
        res2 == IF it1.CheapestRegion = "nil"
                     \/ Cheaper(p, it1.Regions[it1.CheapestRegion].CheapestAz)
                  THEN [res1 EXCEPT !.InstanceTypes[t].CheapestRegion = r]
                  ELSE res1
        ct   == res2.CheapestIType
    IN  IF ct = "nil"
           \/ Cheaper(p, res2.InstanceTypes[ct].Regions[
                            res2.InstanceTypes[ct].CheapestRegion].CheapestAz)
          THEN [res2 EXCEPT !.CheapestIType = t]
          ELSE res2

NoPriceResult == [result |-> FALSE, err |-> "pending"]

\* one entry of a region's price history, parsed: instance type and point
NoEntry == [t |-> "", p |-> NoPoint]

\* the lock is never refused
MutexFreeMutant(holder) == TRUE

\* result.mutex.Lock() returns once no worker holds the mutex
MutexFree(holder) == holder = "free"

\* price.go: if len(iTypes) == 0 { return nil, fmt.Errorf(...) }
NoTypesMutant(types) == FALSE
NoTypes(types) == types = {}

PriceInit ==
    /\ piTypes \in SUBSET ITypes
    /\ pRegionArg \in {"all"} \cup Regions
    /\ ppc = "start"
    /\ pRegionList = <<>>
    /\ pwpc = [r \in Regions |-> "idle"]
    /\ result = NoTable
    /\ ingested = 0
    /\ repeated = FALSE
    /\ pwgErr = "nil"
    /\ pret = NoPriceResult
    /\ pcalls = {}
    /\ mutex = "free"
    /\ pcur = [r \in Regions |-> NoEntry]
    /\ psnap = [r \in Regions |-> NoTable]
    /\ reported = <<>>

PriceIdle ==
    /\ piTypes = {}
    /\ pRegionArg = "all"
    /\ ppc = "idle"
    /\ pRegionList = <<>>
    /\ pwpc = [r \in Regions |-> "idle"]
    /\ result = NoTable
    /\ ingested = 0
    /\ repeated = FALSE
    /\ pwgErr = "nil"
    /\ pret = NoPriceResult
    /\ pcalls = {}
    /\ mutex = "free"
    /\ pcur = [r \in Regions |-> NoEntry]
    /\ psnap = [r \in Regions |-> NoTable]
    /\ reported = <<>>

\* the input check, the region list, the empty table, one wg.Go per region
PriceStart ==
    /\ ppc = "start"
    /\ pcalls' = IF ~NoTypes(piTypes) /\ pRegionArg = "all"
                   THEN pcalls \cup {"DescribeRegions"} ELSE pcalls
    /\ IF NoTypes(piTypes)
         THEN /\ pret' = [result |-> FALSE, err |-> "NoInstanceTypes"]
              /\ ppc' = "returned"
              /\ UNCHANGED <<pRegionList, pwpc, result>>
         ELSE \E e \in {"nil", "getRegions"} :
                IF pRegionArg = "all" /\ e # "nil"
                  THEN /\ pret' = [result |-> FALSE, err |-> e]
                       /\ ppc' = "returned"
                       /\ UNCHANGED <<pRegionList, pwpc, result>>
                  ELSE LET regs == IF pRegionArg = "all"
                                     THEN [k \in 1..MaxRegions |-> RegionPool[k]]
                                     ELSE <<pRegionArg>>
                           rset == {regs[k] : k \in 1..Len(regs)}
                       IN  /\ pRegionList' = regs
                           /\ pwpc' = [r \in Regions |-> IF r \in rset THEN "query" ELSE "idle"]
                           /\ result' = EmptyTable(piTypes, rset)
                           /\ ppc' = "wait"
                           /\ pret' = pret
    /\ UNCHANGED <<piTypes, pRegionArg, ingested, repeated, pwgErr>>
    /\ UNCHANGED plockVars
    /\ UNCHANGED <<selVars, regionVars, lookupVars, launchVars, osVars, scpVars, cheapVars, sgVars>>

\* lookupEc2SpotPricesOneRegion up to the history query: the region's config
\* and DescribeSpotPriceHistory, either of which may fail
PriceQuery(r) ==
    /\ pwpc[r] = "query"
    /\ pcalls' = pcalls \cup {"NewFromConfig", "DescribeSpotPriceHistory"}
    /\ \E e \in {"nil", "DescribeSpotPriceHistory"} :
         IF e = "nil"
           THEN pwpc' = [pwpc EXCEPT ![r] = "ingest"] /\ pwgErr' = pwgErr
           ELSE pwpc' = [pwpc EXCEPT ![r] = "done"] /\ pwgErr' = FirstError(pwgErr, <<e, r>>)
    /\ UNCHANGED <<piTypes, pRegionArg, ppc, pRegionList, result, ingested, repeated, pret>>
    /\ UNCHANGED plockVars
    /\ UNCHANGED <<selVars, regionVars, lookupVars, launchVars, osVars, scpVars, cheapVars, sgVars>>

\* one entry of the region's price history: parsed, then stored and ranked
\* inside result.mutex
PriceIngest(r) ==
    /\ pwpc[r] = "ingest"
    /\ ingested < MaxPoints
    /\ \E t \in piTypes, a \in AzSuffixes, price \in PriceValues :
         LET p == PricePoint(a, price)
         IN  /\ result' = SetCheapest(StorePoint(result, t, r, p), t, r, p)
             /\ repeated' = (repeated \/ result.InstanceTypes[t].Regions[r].Azs[a] # NoPoint)
    /\ ingested' = ingested + 1
    /\ UNCHANGED <<piTypes, pRegionArg, ppc, pRegionList, pwpc, pwgErr, pret, pcalls>>
    /\ UNCHANGED plockVars
    /\ UNCHANGED <<selVars, regionVars, lookupVars, launchVars, osVars, scpVars, cheapVars, sgVars>>

\* the end of the region's history (return nil), or an entry whose price
\* does not parse (return the error)
PriceEnd(r) ==
    /\ pwpc[r] = "ingest"
    /\ \E e \in {"nil", "ParseFloat"} :
         /\ pwgErr' = IF e = "nil" THEN pwgErr ELSE FirstError(pwgErr, <<e, r>>)
         /\ pwpc' = [pwpc EXCEPT ![r] = "done"]
    /\ UNCHANGED <<piTypes, pRegionArg, ppc, pRegionList, result, ingested, repeated, pret,
                   pcalls>>
    /\ UNCHANGED plockVars
    /\ UNCHANGED <<selVars, regionVars, lookupVars, launchVars, osVars, scpVars, cheapVars, sgVars>>

\* err = wg.Wait(); return result, err
PriceWait ==
    /\ ppc = "wait"
    /\ \A k \in 1..Len(pRegionList) : pwpc[pRegionList[k]] = "done"
    /\ pret' = [result |-> TRUE, err |-> pwgErr]
    /\ ppc' = "returned"
    /\ UNCHANGED <<piTypes, pRegionArg, pRegionList, pwpc, result, ingested, repeated, pwgErr,
                   pcalls>>
    /\ UNCHANGED plockVars
    /\ UNCHANGED <<selVars, regionVars, lookupVars, launchVars, osVars, scpVars, cheapVars, sgVars>>

NextPrice ==
    \/ PriceStart
    \/ \E r \in Regions : PriceQuery(r)
    \/ \E r \in Regions : PriceIngest(r)
    \/ \E r \in Regions : PriceEnd(r)
    \/ PriceWait

\* The same loop body with the steps of its critical section told apart.
\* the next entry of the region's history, its price parsed
PriceEntry(r) ==
    /\ pwpc[r] = "ingest"
    /\ ingested < MaxLockPoints
    /\ \E t \in piTypes, a \in AzSuffixes, price \in PriceValues :
         LET e == [t |-> t, p |-> PricePoint(a, price)]
         IN  /\ pcur' = [pcur EXCEPT ![r] = e]
             /\ reported' = Append(reported, [t |-> t, r |-> r, p |-> e.p])
    /\ ingested' = ingested + 1
    /\ pwpc' = [pwpc EXCEPT ![r] = "lock"]
    /\ UNCHANGED <<piTypes, pRegionArg, ppc, pRegionList, result, repeated, pwgErr, pret,
                   pcalls, mutex, psnap>>
    /\ UNCHANGED <<selVars, regionVars, lookupVars, launchVars, osVars, scpVars, cheapVars, sgVars>>

\* result.mutex.Lock(), and the reads of the table the update starts from
PriceLock(r) ==
    /\ pwpc[r] = "lock"
    /\ MutexFree(mutex)
    /\ mutex' = r
    /\ psnap' = [psnap EXCEPT ![r] = result]
    /\ pwpc' = [pwpc EXCEPT ![r] = "store"]
    /\ UNCHANGED <<piTypes, pRegionArg, ppc, pRegionList, result, ingested, repeated, pwgErr,
                   pret, pcalls, pcur, reported>>
    /\ UNCHANGED <<selVars, regionVars, lookupVars, launchVars, osVars, scpVars, cheapVars, sgVars>>

\* Azs[azName] = lookupAz; setCheapest(...); result.mutex.Unlock()
PriceStoreUnlock(r) ==
    /\ pwpc[r] = "store"
    /\ LET t == pcur[r].t
           p == pcur[r].p
       IN  /\ result' = SetCheapest(StorePoint(psnap[r], t, r, p), t, r, p)
           /\ repeated' = (repeated \/ psnap[r].InstanceTypes[t].Regions[r].Azs[p.AzName] # NoPoint)
    /\ mutex' = "free"
    /\ pcur' = [pcur EXCEPT ![r] = NoEntry]
    /\ psnap' = [psnap EXCEPT ![r] = NoTable]
    /\ pwpc' = [pwpc EXCEPT ![r] = "ingest"]
    /\ UNCHANGED <<piTypes, pRegionArg, ppc, pRegionList, ingested, pwgErr, pret, pcalls,
                   reported>>
    /\ UNCHANGED <<selVars, regionVars, lookupVars, launchVars, osVars, scpVars, cheapVars, sgVars>>

NextPriceLock ==
    \/ PriceStart
    \/ \E r \in Regions : PriceQuery(r)
    \/ \E r \in Regions : PriceEntry(r)
    \/ \E r \in Regions : PriceLock(r)
    \/ \E r \in Regions : PriceStoreUnlock(r)
    \/ \E r \in Regions : PriceEnd(r)
    \/ PriceWait

-----------------------------------------------------------------------------
(* LaunchEc2Spot: createLaunchTemplate, then runInstance *)

VpnTagKey == "spotsh.vpn"
DefaultOperatingSystem == 3

\* imageIdTab, indexed from 1: entry v + 1 belongs to OS value v
imageIdTabUser == <<"", "ubuntu", "ec2-user", "ec2-user", "ec2-user", "admin", "ubuntu">>
imageIdTabSsmParam == <<"", "ubuntu/22.04", "amzn2", "al2023-default", "al2023-minimal",
                        "debian/12", "ubuntu/24.04">>

\* how an image id was obtained
NoAmi == <<"none", "">>
GivenAmi(id) == <<"given", id>>
NamedAmi(name) == <<"named", name>>
LatestAmi(param) == <<"ssm", param>>

LaunchOsValues == {0, DefaultOperatingSystem, 5, OsInvalid}

LaunchEc2SpotArgs ==
    [Os : LaunchOsValues, AmiId : {"", "ami-given"}, AmiName : {"", "my-image"},
     User : {"", "bob"}, KeyPair : {"", "mykey"}, SecurityGroupId : {"", "sg-given"}]

EmptyLaunchResult ==
    [InstanceId |-> "", PublicIp |-> "", User |-> "", LocalKeyFile |-> "",
     Os |-> 0, SgId |-> ""]

NoTemplate == [ImageId |-> NoAmi, KeyName |-> "", SgId |-> "", Tags |-> <<>>]

\* createLaunchTemplate: Tags: []types.Tag{userTag, osTag, vpnTag}
TemplateTagsMutant(usr, os) ==
    <<Tag(UserTagKey, usr), Tag(OsTagKey, OsString(os))>>
TemplateTags(usr, os) ==
    <<Tag(UserTagKey, usr), Tag(OsTagKey, OsString(os)), Tag(VpnTagKey, "false")>>

\* createLaunchTemplate: if launchArgs.Os == spotsh.OsNone { ... = DefaultOperatingSystem }
DefaultedOsMutant(os) == os
DefaultedOs(os) == IF os = 0 THEN DefaultOperatingSystem ELSE os

\* runInstance's polling loop: a description error ends it without an error
PollErrorMutant(e) == e
PollError(e) == "nil"

\* what CreateFleet can return: the number of instance entries and the
\* number of instance ids of the first entry
NoFleet == [instances |-> -1, ids |-> -1]
FleetOutputs == [instances : 0..2, ids : 0..2]

\* the first entry is taken whatever the counts
FleetOkMutant(f) == f.instances >= 1 /\ f.ids >= 1

\* runInstance: len(runOutput.Instances) == 1 and
\* len(runOutput.Instances[0].InstanceIds) == 1, else panic
FleetOk(f) == f.instances = 1 /\ f.ids = 1

\* a user given in the arguments is preferred to the table's
TableUserMutant(usr, os) == IF usr # "" THEN usr ELSE imageIdTabUser[os + 1]

\* createLaunchTemplate: launchResult.User = imageIdTab[idx].user
TableUser(usr, os) == imageIdTabUser[os + 1]

\* no check of the arguments
ValidationErrorMutant(args, ami) == ""

\* createLaunchTemplate: the two checks of the image arguments; ami is the
\* image id the arguments led to.  The first is made before the name is
\* looked up, the second once an image id is known.
ValidationError(args, ami) ==
    IF args.AmiName # "" /\ args.AmiId # ""
      THEN "Ami id and ami name are mutually exclusive"
    ELSE IF ami # NoAmi /\ args.User = ""
      THEN "User must be specified"
    ELSE ""

\* the order of the specification's state machine: image, network, key
NextStageMutant(stage) ==
    CASE stage = "template" -> "image"
      [] stage = "image" -> "network"
      [] stage = "network" -> "key"
      [] stage = "key" -> "create"
      [] stage = "create" -> "request"
      [] stage = "request" -> "poll"

\* the order of the statements of createLaunchTemplate and LaunchEc2Spot: the
\* step that follows each step when it does not fail
NextStage(stage) ==
    CASE stage = "template" -> "key"
      [] stage = "key" -> "image"
      [] stage = "image" -> "network"
      [] stage = "network" -> "create"
      [] stage = "create" -> "request"
      [] stage = "request" -> "poll"

LaunchInit ==
    /\ launchArgs \in LaunchEc2SpotArgs
    /\ lapc = "template"
    /\ launchResult = EmptyLaunchResult
    /\ launchErr = "nil"
    /\ amiId = NoAmi
    /\ keyName = ""
    /\ template = NoTemplate
    /\ effects = {}
    /\ stages = <<>>
    /\ polls = 0
    /\ lastPoll = "none"
    /\ fleet = NoFleet

LaunchIdle ==
    /\ launchArgs = [Os |-> 0, AmiId |-> "", AmiName |-> "", User |-> "",
                     KeyPair |-> "", SecurityGroupId |-> ""]
    /\ lapc = "idle"
    /\ launchResult = EmptyLaunchResult
    /\ launchErr = "nil"
    /\ amiId = NoAmi
    /\ keyName = ""
    /\ template = NoTemplate
    /\ effects = {}
    /\ stages = <<>>
    /\ polls = 0
    /\ lastPoll = "none"
    /\ fleet = NoFleet

\* LaunchEc2Spot: err = fmt.Errorf("failed to create launch template: %w\n", err)
TemplateFailed(e) == <<"failed to create launch template", e>>

\* createLaunchTemplate: a template left over from an earlier launch is deleted
CleanTemplate ==
    /\ lapc = "template"
    /\ stages' = Append(stages, "CleanTemplate")
    /\ \E exists \in BOOLEAN, e \in {"nil", "DeleteLaunchTemplate"} :
         IF exists /\ e # "nil"
           THEN /\ launchErr' = TemplateFailed(e)
                /\ lapc' = "returned"
                /\ effects' = effects
           ELSE /\ launchErr' = launchErr
                /\ lapc' = NextStage("template")
                /\ effects' = IF exists THEN effects \cup {"DeleteLaunchTemplate"} ELSE effects
    /\ UNCHANGED <<launchArgs, launchResult, amiId, keyName, template, polls, lastPoll>>
    /\ UNCHANGED fleet
    /\ UNCHANGED <<selVars, regionVars, lookupVars, priceVars, osVars, scpVars, cheapVars, sgVars>>

\* createLaunchTemplate: the key pair (the default one is created when it is
\* missing), then LookupKeys for the local key file of that name
ResolveKey ==
    /\ lapc = "key"
    /\ stages' = Append(stages, "ResolveKey")
    /\ \E have \in BOOLEAN, local \in BOOLEAN,
          e \in {"nil", "haveDefaultKeyPair", "createDefaultKeyPair", "LookupKeys"} :
         LET given   == launchArgs.KeyPair # ""
             creates == ~given /\ ~have /\ e \notin {"haveDefaultKeyPair"}
             fails   == \/ e = "LookupKeys"
                        \/ ~given /\ e = "haveDefaultKeyPair"
                        \/ creates /\ e = "createDefaultKeyPair"
         IN  /\ effects' = IF creates /\ e # "createDefaultKeyPair"
                             THEN effects \cup {"CreateKeyPair", "WriteKeyFile"}
                             ELSE effects
             /\ IF fails
                  THEN /\ launchErr' = TemplateFailed(e)
                       /\ lapc' = "returned"
                       /\ UNCHANGED <<keyName, launchResult>>
                  ELSE /\ launchErr' = launchErr
                       /\ lapc' = NextStage("key")
                       /\ keyName' = IF given THEN launchArgs.KeyPair ELSE "spotsh.default"
                       /\ launchResult' =
                             [launchResult EXCEPT !.LocalKeyFile =
                                 IF local THEN "spotsh.pem" ELSE ""]
    /\ UNCHANGED <<launchArgs, amiId, template, polls, lastPoll>>
    /\ UNCHANGED fleet
    /\ UNCHANGED <<selVars, regionVars, lookupVars, priceVars, osVars, scpVars, cheapVars, sgVars>>

\* createLaunchTemplate: the image id and the login user
ResolveImage ==
    /\ lapc = "image"
    /\ stages' = Append(stages, "ResolveImage")
    /\ \E e \in {"nil", "getAmiIdFromName", "GetParameter"} :
         LET named == launchArgs.AmiName # ""
             ami1  == IF named THEN NamedAmi(launchArgs.AmiName)
                      ELSE IF launchArgs.AmiId # "" THEN GivenAmi(launchArgs.AmiId)
                      ELSE NoAmi
             os    == DefaultedOs(launchArgs.Os)
         IN  IF ValidationError(launchArgs, NoAmi) # ""
               THEN /\ launchErr' = TemplateFailed(ValidationError(launchArgs, NoAmi))
                    /\ lapc' = "returned"
                    /\ UNCHANGED <<launchArgs, launchResult, amiId>>
             ELSE IF named /\ e = "getAmiIdFromName"
               THEN /\ launchErr' = TemplateFailed(e)
                    /\ lapc' = "returned"
                    /\ UNCHANGED <<launchArgs, launchResult, amiId>>
             ELSE IF ami1 = NoAmi
               THEN /\ launchArgs' = [launchArgs EXCEPT !.Os = os]
                    /\ IF os + 1 > Len(imageIdTabUser)
                         THEN \* imageIdTab[idx]: index out of range
                              /\ lapc' = "panicked"
                              /\ UNCHANGED <<launchErr, launchResult, amiId>>
                         ELSE /\ launchResult' =
                                   [launchResult EXCEPT !.User = TableUser(launchArgs.User, os)]
                              /\ IF e = "GetParameter"
                                   THEN /\ launchErr' = TemplateFailed(e)
                                        /\ lapc' = "returned"
                                        /\ amiId' = amiId
                                   ELSE /\ launchErr' = launchErr
                                        /\ lapc' = NextStage("image")
                                        /\ amiId' = LatestAmi(imageIdTabSsmParam[os + 1])
             ELSE IF ValidationError(launchArgs, ami1) # ""
               THEN /\ launchErr' = TemplateFailed(ValidationError(launchArgs, ami1))
                    /\ lapc' = "returned"
                    /\ UNCHANGED <<launchArgs, launchResult, amiId>>
             ELSE /\ launchResult' = [launchResult EXCEPT !.User = launchArgs.User]
                  /\ amiId' = ami1
                  /\ lapc' = NextStage("image")
                  /\ UNCHANGED <<launchArgs, launchErr>>
    /\ UNCHANGED <<keyName, template, effects, polls, lastPoll>>
    /\ UNCHANGED fleet
    /\ UNCHANGED <<selVars, regionVars, lookupVars, priceVars, osVars, scpVars, cheapVars, sgVars>>

\* createLaunchTemplate: the security group, the default one if none is given
ResolveNetwork ==
    /\ lapc = "network"
    /\ stages' = Append(stages, "ResolveNetwork")
    /\ \E e \in {"nil", "getDefaultSecurityGroupId"} :
         IF launchArgs.SecurityGroupId = "" /\ e # "nil"
           THEN /\ launchErr' = TemplateFailed(e)
                /\ lapc' = "returned"
                /\ launchResult' = launchResult
           ELSE /\ launchErr' = launchErr
                /\ lapc' = NextStage("network")
                /\ launchResult' =
                      [launchResult EXCEPT !.SgId =
                          IF launchArgs.SecurityGroupId = "" THEN "sg-default"
                          ELSE launchArgs.SecurityGroupId]
    /\ UNCHANGED <<launchArgs, amiId, keyName, template, effects, polls, lastPoll>>
    /\ UNCHANGED fleet
    /\ UNCHANGED <<selVars, regionVars, lookupVars, priceVars, osVars, scpVars, cheapVars, sgVars>>

\* createLaunchTemplate: the tags, the root volume and CreateLaunchTemplate
CreateTemplate ==
    /\ lapc = "create"
    /\ stages' = Append(stages, "CreateTemplate")
    /\ launchResult' = [launchResult EXCEPT !.Os = launchArgs.Os]
    /\ \E e \in {"nil", "getRootVolName", "CreateLaunchTemplate"} :
         IF e # "nil"
           THEN /\ launchErr' = TemplateFailed(e)
                /\ lapc' = "returned"
                /\ UNCHANGED <<template, effects>>
           ELSE /\ launchErr' = launchErr
                /\ lapc' = NextStage("create")
                /\ template' = [ImageId |-> amiId, KeyName |-> keyName,
                                SgId |-> launchResult.SgId,
                                Tags |-> TemplateTags(launchResult.User, launchArgs.Os)]
                /\ effects' = effects \cup {"CreateLaunchTemplate"}
    /\ UNCHANGED <<launchArgs, amiId, keyName, polls, lastPoll>>
    /\ UNCHANGED fleet
    /\ UNCHANGED <<selVars, regionVars, lookupVars, priceVars, osVars, scpVars, cheapVars, sgVars>>

\* runInstance: CreateFleet and the checks of what it returned
RequestInstance ==
    /\ lapc = "request"
    /\ stages' = Append(stages, "RequestInstance")
    /\ \E e \in {"nil", "CreateFleet"}, f \in FleetOutputs :
         IF e # "nil"
           THEN /\ launchErr' = "unable to create EC2 fleet"
                /\ lapc' = "returned"
                /\ UNCHANGED <<launchResult, effects, fleet>>
           ELSE /\ effects' = effects \cup {"CreateFleet"}
                /\ launchErr' = launchErr
                /\ f.instances = 0 => f.ids = 0
                /\ fleet' = f
                /\ IF ~FleetOk(f)
                     THEN lapc' = "panicked" /\ launchResult' = launchResult
                     ELSE /\ lapc' = NextStage("request")
                          /\ launchResult' = [launchResult EXCEPT !.InstanceId = NewInstanceId]
    /\ UNCHANGED <<launchArgs, amiId, keyName, template, polls, lastPoll>>
    /\ UNCHANGED <<selVars, regionVars, lookupVars, priceVars, osVars, scpVars, cheapVars, sgVars>>

\* the addresses a description can report
PollAddresses == {"203.0.113.7", "198.51.100.9"}

\* the reported address is not stored
PollResultMutant(outcome, res) == res

\* runInstance: launchResult.PublicIp = *...PublicIpAddress
PollResult(outcome, res) ==
    IF outcome \in PollAddresses THEN [res EXCEPT !.PublicIp = outcome] ELSE res

\* runInstance: one round of the polling loop; the outcome is a failed
\* description, one without exactly one reservation and instance, one without
\* an address, or the address reported
PollAddress ==
    /\ lapc = "poll"
    /\ stages' = IF stages[Len(stages)] # "PollAddress"
                   THEN Append(stages, "PollAddress") ELSE stages
    /\ \E outcome \in {"error", "badcount", "noaddress"} \cup PollAddresses :
         /\ outcome = "noaddress" => polls < MaxPolls
         /\ lastPoll' = outcome
         /\ polls' = IF outcome = "noaddress" THEN polls + 1 ELSE polls
         /\ lapc' = CASE outcome = "badcount" -> "panicked"
                      [] outcome = "noaddress" -> "poll"
                      [] OTHER -> "returned"
         /\ launchErr' = IF outcome = "error" THEN PollError("DescribeInstances")
                         ELSE launchErr
         /\ launchResult' = PollResult(outcome, launchResult)
    /\ UNCHANGED <<launchArgs, amiId, keyName, template, effects>>
    /\ UNCHANGED fleet
    /\ UNCHANGED <<selVars, regionVars, lookupVars, priceVars, osVars, scpVars, cheapVars, sgVars>>

NextLaunch ==
    \/ CleanTemplate
    \/ ResolveKey
    \/ ResolveImage
    \/ ResolveNetwork
    \/ CreateTemplate
    \/ RequestInstance
    \/ PollAddress

-----------------------------------------------------------------------------
(* spotsh scp: the {s} replacement *)

\* const SpotHostVar = "{s}", as a sequence of characters
SpotHostVar == <<"{", "s", "}">>

ArgChars == {"{", "s", "}", "-"}

RECURSIVE StringsUpTo(_)
StringsUpTo(n) ==
    IF n = 0 THEN {<<>>}
    ELSE LET shorter == StringsUpTo(n - 1)
         IN  shorter \cup {Append(w, c) : w \in {x \in shorter : Len(x) = n - 1},
                                          c \in ArgChars}

\* the argument lists given after "scp": none, one, or one followed by a fixed
\* second one
ScpArgLists ==
    {<<>>} \cup {<<a>> : a \in StringsUpTo(MaxArgLen)}
           \cup {<<a, b>> : a \in StringsUpTo(MaxArgLen),
                            b \in {<<"{", "s", "}", "s">>, <<"s">>}}

\* selectedInstance.User + "@" + selectedInstance.PublicIp, kept as one item
UserAtPublicIp(rec) == rec.User \o "@" \o rec.PublicIp

NoScpInstance == [User |-> "", PublicIp |-> ""]
ScpInstances == {[User |-> "ec2-user", PublicIp |-> "203.0.113.7"],
                 [User |-> "admin", PublicIp |-> ""]}

\* strings.Replace(arg, SpotHostVar, host, 1)
RECURSIVE ReplaceAllMutant(_, _)
ReplaceAllMutant(str, host) ==
    IF Len(str) = 0 THEN <<>>
    ELSE IF Len(str) >= 3 /\ SubSeq(str, 1, 3) = SpotHostVar
      THEN <<host>> \o SubSeq(str, 4, Len(str))
    ELSE <<Head(str)>> \o ReplaceAllMutant(Tail(str), host)

\* strings.ReplaceAll(arg, SpotHostVar, host): leftmost occurrences, not
\* overlapping, the replacement is not scanned again
RECURSIVE ReplaceAll(_, _)
ReplaceAll(str, host) ==
    IF Len(str) = 0 THEN <<>>
    ELSE IF Len(str) >= 3 /\ SubSeq(str, 1, 3) = SpotHostVar
      THEN <<host>> \o ReplaceAll(SubSeq(str, 4, Len(str)), host)
    ELSE <<Head(str)>> \o ReplaceAll(Tail(str), host)

\* flag.FlagSet.Parse with the one flag -instance-id, on words that never
\* spell it: a word that is no flag stops the parse, "--" is dropped and
\* stops it, any other flag is an error
FlagParse(args) ==
    IF args = <<>> THEN [ok |-> TRUE, rest |-> <<>>]
    ELSE IF Len(args[1]) < 2 \/ args[1][1] # "-" THEN [ok |-> TRUE, rest |-> args]
    ELSE IF args[1] = <<"-", "-">> THEN [ok |-> TRUE, rest |-> Tail(args)]
    ELSE [ok |-> FALSE, rest |-> <<>>]

\* the subcommand's name as the word of the command line
CommandWord(name) == IF name = "ssh" THEN <<"s", "s", "h">> ELSE <<"s", "c", "p">>

ScpInit ==
    /\ subCommandName \in {"ssh", "scp"}
    /\ scpArgsIn \in ScpArgLists
    /\ scpArgs = <<CommandWord(subCommandName)>> \o scpArgsIn
    /\ scpSelected = NoScpInstance
    /\ scpExecd = <<>>
    /\ scppc = "main"

ScpIdle ==
    /\ subCommandName = ""
    /\ scpArgsIn = <<>>
    /\ scpArgs = <<>>
    /\ scpSelected = NoScpInstance
    /\ scpExecd = <<>>
    /\ scppc = "idle"

\* main: subCommandName = args[0]; if len(args) > 1 { args = args[1:] }
ScpDispatch ==
    /\ scppc = "main"
    /\ scpArgs' = IF Len(scpArgs) > 1 THEN Tail(scpArgs) ELSE scpArgs
    /\ scppc' = "select"
    /\ UNCHANGED <<subCommandName, scpArgsIn, scpSelected, scpExecd>>
    /\ UNCHANGED <<selVars, regionVars, lookupVars, priceVars, launchVars, osVars, cheapVars, sgVars>>

\* scpMain: selectOrLaunchWithArgs parses the flags, leaves f.Args() in args
\* and selects an instance, or fails
ScpSelect ==
    /\ scppc = "select"
    /\ LET parsed == FlagParse(scpArgs)
       IN  IF ~parsed.ok
             THEN scppc' = "failed" /\ UNCHANGED <<scpArgs, scpSelected>>
             ELSE /\ scpArgs' = parsed.rest
                  /\ \E rec \in ScpInstances \cup {NoScpInstance} :
                       /\ scpSelected' = rec
                       /\ scppc' = IF rec = NoScpInstance THEN "failed"
                                   ELSE IF subCommandName = "scp" THEN "replace"
                                   ELSE "sshCommon"
    /\ UNCHANGED <<subCommandName, scpArgsIn, scpExecd>>
    /\ UNCHANGED <<selVars, regionVars, lookupVars, priceVars, launchVars, osVars, cheapVars, sgVars>>

\* scpMain: the replacement loop over args, then the exec of scp
ScpReplaceExec ==
    /\ scppc = "replace"
    /\ scpExecd' = [i \in 1..Len(scpArgs) |->
                       ReplaceAll(scpArgs[i], UserAtPublicIp(scpSelected))]
    /\ scppc' = "exec"
    /\ UNCHANGED <<subCommandName, scpArgsIn, scpArgs, scpSelected>>
    /\ UNCHANGED <<selVars, regionVars, lookupVars, priceVars, launchVars, osVars, cheapVars, sgVars>>

\* sshCommon after the selection: the probe, which may fail, then execSsh
\* with user@ip and the remaining args appended to the common arguments
SshProbeExec ==
    /\ scppc = "sshCommon"
    /\ \E probeOk \in BOOLEAN :
         IF probeOk
           THEN /\ scpExecd' = <<<<UserAtPublicIp(scpSelected)>>>> \o scpArgs
                /\ scppc' = "execSsh"
           ELSE /\ scpExecd' = scpExecd
                /\ scppc' = "failed"
    /\ UNCHANGED <<subCommandName, scpArgsIn, scpArgs, scpSelected>>
    /\ UNCHANGED <<selVars, regionVars, lookupVars, priceVars, launchVars, osVars, cheapVars, sgVars>>

NextScp ==
    \/ ScpDispatch
    \/ ScpSelect
    \/ ScpReplaceExec
    \/ SshProbeExec

-----------------------------------------------------------------------------
(* LaunchEc2Spot of internal/aws: the cheapest type and its subnet *)

DefaultInstanceTypes == {"c5a.large", "c5.large", "c6i.large", "c6a.large"}

\* awsCfg.Region of the launch
LaunchRegion == RegionPool[1]

\* the price histories the region can report for a set of types
Histories(types) ==
    UNION {[1..n -> types \X AzSuffixes \X PriceValues] : n \in 0..MaxHistory}

\* the table after the entries of a history, from entry i on, were ingested
RECURSIVE IngestAll(_, _, _)
IngestAll(tab, h, i) ==
    IF i > Len(h) THEN tab
    ELSE LET p == PricePoint(h[i][2], h[i][3])
         IN  IngestAll(SetCheapest(StorePoint(tab, h[i][1], LaunchRegion, p),
                                   h[i][1], LaunchRegion, p),
                       h, i + 1)

\* what a successful LookupEc2SpotPrices(awsCfg, types) can return
PriceTables(types) ==
    {IngestAll(EmptyTable(types, {LaunchRegion}), h, 1) : h \in Histories(types)}

\* spotPriceResult.CheapestIType.CheapestRegion.CheapestAz.AzName
CheapestAzName(tab) ==
    LET it == tab.InstanceTypes[tab.CheapestIType]
    IN  it.Regions[it.CheapestRegion].CheapestAz.AzName

\* the subnets DescribeSubnets can list: subnet k lies in one of the AZs
Subnet(k, az) == [SubnetId |-> IF k = 1 THEN "subnet-1" ELSE IF k = 2 THEN "subnet-2"
                                ELSE "subnet-3",
                  AvailabilityZone |-> az]
SubnetLists == UNION {{[k \in 1..n |-> Subnet(k, f[k])] : f \in [1..n -> AzSuffixes]} :
                        n \in 0..MaxSubnets}

\* the first subnet listed, whatever its AZ
GetSubnetIdFromAzNameMutant(subnets, azName) ==
    IF subnets = <<>> THEN [id |-> "", err |-> "Could not find subnet"]
    ELSE [id |-> subnets[1].SubnetId, err |-> "nil"]

\* getSubnetIdFromAzName: the first subnet whose AvailabilityZone is azName
GetSubnetIdFromAzName(subnets, azName) ==
    LET hits == {k \in 1..Len(subnets) : subnets[k].AvailabilityZone = azName}
    IN  IF hits = {} THEN [id |-> "", err |-> "Could not find subnet"]
        ELSE [id |-> subnets[CHOOSE k \in hits : \A j \in hits : k <= j].SubnetId,
              err |-> "nil"]

NoRun == [InstanceType |-> "", SubnetId |-> ""]
NoCheapResult == [InstanceType |-> "", InstanceId |-> "", PublicIp |-> ""]

CheapInit ==
    /\ clTypes \in {{}, {"c5.large"}, {"c5.large", "c6i.large"}}
    /\ clpc = "resolve"
    /\ clTable = NoTable
    /\ clSubnets = <<>>
    /\ clSubnetId = ""
    /\ clRun = NoRun
    /\ clResult = NoCheapResult
    /\ clPolls = 0
    /\ clErr = "nil"

CheapIdle ==
    /\ clTypes = {}
    /\ clpc = "idle"
    /\ clTable = NoTable
    /\ clSubnets = <<>>
    /\ clSubnetId = ""
    /\ clRun = NoRun
    /\ clResult = NoCheapResult
    /\ clPolls = 0
    /\ clErr = "nil"

\* key pair, image and user, security group, root volume name: any of them
\* may fail, which ends the call
CheapResolve ==
    /\ clpc = "resolve"
    /\ \E e \in {"nil", "LookupKeys", "getLatestAmiId", "getDefaultSecurityGroupId",
                 "getRootVolName"} :
         /\ clErr' = e
         /\ clpc' = IF e = "nil" THEN "price" ELSE "returned"
    /\ UNCHANGED <<clTypes, clTable, clSubnets, clSubnetId, clRun, clResult, clPolls>>
    /\ UNCHANGED <<selVars, regionVars, lookupVars, priceVars, launchVars, osVars, scpVars, sgVars>>

\* the default type list, the price query and the cheapest type
CheapPrice ==
    /\ clpc = "price"
    /\ LET types == IF clTypes = {} THEN DefaultInstanceTypes ELSE clTypes
       IN  /\ clTypes' = types
           /\ \E e \in {"nil", "LookupEc2SpotPrices"} :
                IF e # "nil"
                  THEN /\ clErr' = e
                       /\ clpc' = "returned"
                       /\ UNCHANGED <<clTable, clResult>>
                  ELSE \E tab \in PriceTables(types) :
                         /\ clTable' = tab
                         /\ clErr' = clErr
                         /\ IF tab.CheapestIType = "nil"
                              THEN clpc' = "panicked" /\ clResult' = clResult
                              ELSE /\ clpc' = "subnet"
                                   /\ clResult' = [clResult EXCEPT
                                                     !.InstanceType = tab.CheapestIType]
    /\ UNCHANGED <<clSubnets, clSubnetId, clRun, clPolls>>
    /\ UNCHANGED <<selVars, regionVars, lookupVars, priceVars, launchVars, osVars, scpVars, sgVars>>

\* cheapestAz and getSubnetIdFromAzName
CheapSubnet ==
    /\ clpc = "subnet"
    /\ \E e \in {"nil", "DescribeSubnets"} :
         IF e # "nil"
           THEN /\ clErr' = e
                /\ clpc' = "returned"
                /\ UNCHANGED <<clSubnets, clSubnetId>>
           ELSE \E subs \in SubnetLists :
                  LET r == GetSubnetIdFromAzName(subs, CheapestAzName(clTable))
                  IN  /\ clSubnets' = subs
                      /\ clSubnetId' = r.id
                      /\ clErr' = r.err
                      /\ clpc' = IF r.err = "nil" THEN "run" ELSE "returned"
    /\ UNCHANGED <<clTypes, clTable, clRun, clResult, clPolls>>
    /\ UNCHANGED <<selVars, regionVars, lookupVars, priceVars, launchVars, osVars, scpVars, sgVars>>

\* RunInstances with the type and subnet chosen; one instance is expected
CheapRun ==
    /\ clpc = "run"
    /\ clRun' = [InstanceType |-> clResult.InstanceType, SubnetId |-> clSubnetId]
    /\ \E e \in {"nil", "RunInstances", "count"} :
         /\ clErr' = IF e = "RunInstances" THEN e ELSE clErr
         /\ clpc' = CASE e = "nil" -> "poll"
                      [] e = "RunInstances" -> "returned"
                      [] e = "count" -> "panicked"
         /\ clResult' = IF e = "nil" THEN [clResult EXCEPT !.InstanceId = "i-new"]
                        ELSE clResult
    /\ UNCHANGED <<clTypes, clTable, clSubnets, clSubnetId, clPolls>>
    /\ UNCHANGED <<selVars, regionVars, lookupVars, priceVars, launchVars, osVars, scpVars, sgVars>>

\* one round of the polling loop
CheapPoll ==
    /\ clpc = "poll"
    /\ \E outcome \in {"error", "badcount", "noaddress", "address"} :
         /\ outcome = "noaddress" => clPolls < MaxPolls
         /\ clPolls' = IF outcome = "noaddress" THEN clPolls + 1 ELSE clPolls
         /\ clpc' = CASE outcome = "noaddress" -> "poll"
                      [] outcome = "badcount" -> "panicked"
                      [] OTHER -> "returned"
         /\ clResult' = IF outcome = "address"
                          THEN [clResult EXCEPT !.PublicIp = "203.0.113.7"]
                          ELSE clResult
    /\ UNCHANGED <<clTypes, clTable, clSubnets, clSubnetId, clRun, clErr>>
    /\ UNCHANGED <<selVars, regionVars, lookupVars, priceVars, launchVars, osVars, scpVars, sgVars>>

NextCheap ==
    \/ CheapResolve
    \/ CheapPrice
    \/ CheapSubnet
    \/ CheapRun
    \/ CheapPoll

-----------------------------------------------------------------------------
(* getDefaultSecurityGroupId *)

VpcName(k) == IF k = 1 THEN "vpc-1" ELSE IF k = 2 THEN "vpc-2" ELSE "vpc-3"
SgName(k) == IF k = 1 THEN "sg-1" ELSE IF k = 2 THEN "sg-2" ELSE IF k = 3 THEN "sg-3"
             ELSE "sg-4"

\* the VPC listings: VPC k of the listing, marked default or not
VpcLists ==
    UNION {{[k \in 1..n |-> [VpcId |-> VpcName(k), IsDefault |-> f[k]]] :
              f \in [1..n -> BOOLEAN]} : n \in 0..MaxVpcs}

\* the group listings: group k with a name and the VPC it belongs to
GroupNames == {"default", "web"}
SgLists ==
    UNION {{[k \in 1..n |-> [GroupId |-> SgName(k), GroupName |-> f[k][1],
                             VpcId |-> VpcName(f[k][2])]] :
              f \in [1..n -> GroupNames \X (1..MaxVpcs)]} : n \in 0..MaxSgs}

\* the loop over descVpcsOutput.Vpcs from VPC i on: the first one marked default
RECURSIVE DefaultVpcLoop(_, _)
DefaultVpcLoop(vpcs, i) ==
    IF i > Len(vpcs) THEN ""
    ELSE IF ~vpcs[i].IsDefault THEN DefaultVpcLoop(vpcs, i + 1)
    ELSE vpcs[i].VpcId

\* the groups of every VPC are looked at
InVpcMutant(sg, vpcId) == TRUE

\* vpc.go: if *sg.VpcId != vpcId { continue }
InVpc(sg, vpcId) == sg.VpcId = vpcId

\* the loop over descSgOutput.SecurityGroups from group i on
RECURSIVE SgLoop(_, _, _, _)
SgLoop(st, sgs, vpcId, i) ==
    IF i > Len(sgs) THEN st
    ELSE IF ~InVpc(sgs[i], vpcId) THEN SgLoop(st, sgs, vpcId, i + 1)
    ELSE LET st1 == [st EXCEPT !.numSgInVpc = st.numSgInVpc + 1, !.sgId = sgs[i].GroupId]
         IN  IF sgs[i].GroupName = "default"
               THEN [st1 EXCEPT !.foundDefaultSg = TRUE]
               ELSE SgLoop(st1, sgs, vpcId, i + 1)

NoSgRet == [id |-> "", err |-> "pending"]

SgInit ==
    /\ sgVpcs \in VpcLists
    /\ sgGroups \in SgLists
    /\ sgpc = "vpcs"
    /\ sgVpcId = ""
    /\ sgRet = NoSgRet

SgIdle ==
    /\ sgVpcs = <<>>
    /\ sgGroups = <<>>
    /\ sgpc = "idle"
    /\ sgVpcId = ""
    /\ sgRet = NoSgRet

\* DescribeVpcs and the choice of the VPC
SgChooseVpc ==
    /\ sgpc = "vpcs"
    /\ \E e \in {"nil", "DescribeVpcs"} :
         IF e # "nil"
           THEN /\ sgRet' = [id |-> "", err |-> e]
                /\ sgpc' = "returned"
                /\ sgVpcId' = sgVpcId
           ELSE LET vpcId == DefaultVpcLoop(sgVpcs, 1)
                IN  IF vpcId = "" /\ Len(sgVpcs) # 1
                      THEN /\ sgRet' = [id |-> "", err |-> "Could not find default VPC"]
                           /\ sgpc' = "returned"
                           /\ sgVpcId' = sgVpcId
                      ELSE /\ sgVpcId' = IF vpcId = "" THEN sgVpcs[1].VpcId ELSE vpcId
                           /\ sgpc' = "groups"
                           /\ sgRet' = sgRet
    /\ UNCHANGED <<sgVpcs, sgGroups>>
    /\ UNCHANGED <<selVars, regionVars, lookupVars, priceVars, launchVars, osVars, scpVars,
                   cheapVars>>

\* DescribeSecurityGroups and the choice of the group
SgChooseGroup ==
    /\ sgpc = "groups"
    /\ \E e \in {"nil", "DescribeSecurityGroups"} :
         IF e # "nil"
           THEN sgRet' = [id |-> "", err |-> e]
           ELSE LET st == SgLoop([numSgInVpc |-> 0, foundDefaultSg |-> FALSE, sgId |-> ""],
                                 sgGroups, sgVpcId, 1)
                IN  IF ~st.foundDefaultSg /\ st.numSgInVpc # 1
                      THEN sgRet' = [id |-> "",
                                     err |-> "Could not find default Security Group"]
                      ELSE sgRet' = [id |-> st.sgId, err |-> "nil"]
    /\ sgpc' = "returned"
    /\ UNCHANGED <<sgVpcs, sgGroups, sgVpcId>>
    /\ UNCHANGED <<selVars, regionVars, lookupVars, priceVars, launchVars, osVars, scpVars,
                   cheapVars>>

NextSg ==
    \/ SgChooseVpc
    \/ SgChooseGroup

-----------------------------------------------------------------------------
(* Specifications *)

InitSel == SelInit /\ RegionIdle /\ LookupIdle /\ PriceIdle /\ LaunchIdle /\ OsIdle /\ ScpIdle /\ CheapIdle /\ SgIdle
SpecSel == InitSel /\ [][NextSel]_vars

\* every testSshOnce returns (net.DialTimeout with 5 seconds) and the loop of
\* testSsh goes on
SpecSelLive == SpecSel /\ WF_vars(TestSshOnce)

InitRegion == SelIdle /\ RegionInit /\ LookupIdle /\ PriceIdle /\ LaunchIdle /\ OsIdle /\ ScpIdle /\ CheapIdle /\ SgIdle
SpecRegion == InitRegion /\ [][NextRegion]_vars

InitLookup == SelIdle /\ RegionIdle /\ LookupInit /\ PriceIdle /\ LaunchIdle /\ OsIdle /\ ScpIdle /\ CheapIdle /\ SgIdle
SpecLookup == InitLookup /\ [][NextLookup]_vars

InitPrice == SelIdle /\ RegionIdle /\ LookupIdle /\ PriceInit /\ LaunchIdle /\ OsIdle /\ ScpIdle /\ CheapIdle /\ SgIdle
SpecPrice == InitPrice /\ [][NextPrice]_vars
SpecPriceLock == InitPrice /\ [][NextPriceLock]_vars

InitLaunch == SelIdle /\ RegionIdle /\ LookupIdle /\ PriceIdle /\ LaunchInit /\ OsIdle /\ ScpIdle /\ CheapIdle /\ SgIdle
SpecLaunch == InitLaunch /\ [][NextLaunch]_vars

\* the polling loop of runInstance goes on: every DescribeInstances returns
SpecLaunchLive == SpecLaunch /\ WF_vars(PollAddress)

InitOs == SelIdle /\ RegionIdle /\ LookupIdle /\ PriceIdle /\ LaunchIdle /\ OsInit /\ ScpIdle /\ CheapIdle /\ SgIdle
SpecOs == InitOs /\ [][NextOs]_vars

InitScp == SelIdle /\ RegionIdle /\ LookupIdle /\ PriceIdle /\ LaunchIdle /\ OsIdle /\ ScpInit /\ CheapIdle /\ SgIdle
SpecScp == InitScp /\ [][NextScp]_vars

InitCheap ==
    /\ SelIdle /\ RegionIdle /\ LookupIdle /\ PriceIdle /\ LaunchIdle /\ OsIdle /\ ScpIdle
    /\ CheapInit /\ SgIdle
SpecCheap == InitCheap /\ [][NextCheap]_vars

InitSg ==
    /\ SelIdle /\ RegionIdle /\ LookupIdle /\ PriceIdle /\ LaunchIdle /\ OsIdle /\ ScpIdle
    /\ CheapIdle /\ SgInit
SpecSg == InitSg /\ [][NextSg]_vars

-----------------------------------------------------------------------------
(* Properties of one invocation (SpecSel) *)

\* selectOrLaunch has returned
Selected == pc # "main" /\ flagOk

\* LookupEc2Spot returned no error and no record
LocatedNone == located.err = "nil" /\ Len(located.results) = 0

NonLaunchCommands == {"ssh", "scp", "terminate", "image", "vpn"}

\* C1 (as stated): on the no-subcommand path, whenever the locator returned
\* zero instances the launcher has been invoked exactly once and an ssh exec
\* uses the record it returned; with one or more located instances the
\* launcher is not invoked.
C1_LaunchExactlyOnce ==
    /\ (Selected /\ cmd = "" /\ LocatedNone) => launchCount = 1
    /\ (cmd = "" /\ launchCount = 1 /\ execd # NoExec) => execd = ExecOf("ssh", launched)
    /\ (Selected /\ Len(located.results) >= 1) => launchCount = 0

\* C1 (amended): the launcher is invoked exactly once when the locator
\* returned zero instances and newLaunchArgsFromPrefs succeeded, and not at
\* all when the preferences could not be loaded or an instance was located;
\* an ssh exec that follows a launch uses the launcher's record.
C1_LaunchOnceWhenPrefsLoad ==
    /\ launchCount <= 1
    /\ (Selected /\ cmd = "" /\ LocatedNone /\ prefs = "ok") => launchCount = 1
    /\ (Selected /\ cmd = "" /\ LocatedNone /\ prefs = "failed") =>
          (launchCount = 0 /\ pc = "failed" /\ err.kind = "Prefs")
    /\ (cmd = "" /\ launchCount = 1 /\ execd # NoExec) =>
          (execd = ExecOf("ssh", launched) /\ selectedInstance = launched)
    /\ (Selected /\ Len(located.results) >= 1) => launchCount = 0
    /\ (Selected /\ located.err = "LookupFailed") => launchCount = 0

C1_Witness ==
    /\ cmd = "" /\ LocatedNone /\ launchCount = 1
    /\ pc = "exec" /\ execd = ExecOf("ssh", launched)

\* C2: more than one located record and no --instance-id: selection fails,
\* nothing is selected or executed, and the error lists every located id.
C2_AmbiguityListsAll ==
    (Selected /\ Len(located.results) > 1 /\ instanceId = "") =>
        /\ pc = "failed"
        /\ err.kind = "Ambiguous"
        /\ selectedInstance = NoRecord
        /\ execd = NoExec
        /\ launchCount = 0
        /\ \A i \in 1..Len(located.results) :
             \E j \in 1..Len(err.cands) : err.cands[j][1] = located.results[i].InstanceId

C2_Witness ==
    /\ cmd = "ssh" /\ Len(located.results) = MaxInst /\ instanceId = ""
    /\ err.kind = "Ambiguous" /\ Len(err.cands) = MaxInst

\* lookup (and launch, if any) ended without error
StageOk == Selected /\ err.kind \notin {"Prefs", "LookupLaunch"}

\* indices of launchResults the filter accepts
Matches == {i \in 1..Len(launchResults) :
              instanceId = "" \/ launchResults[i].InstanceId = instanceId}

\* exactly one record matches: the only record, or the one the filter names
ExactlyOneMatch ==
    /\ StageOk
    /\ Cardinality(Matches) = 1
    /\ (instanceId = "" => Len(launchResults) = 1)

TheMatch == launchResults[CHOOSE i \in Matches : TRUE]

\* C3 (as stated): with exactly one matching record selection succeeds and
\* returns that record.
C3_OneMatchSelected ==
    ExactlyOneMatch => selectedInstance = TheMatch

\* C3 (amended): with exactly one matching record selection returns that
\* record when its local key file is non-empty, and otherwise fails with the
\* missing-local-key error naming it and selects nothing.
C3_OneMatchSelectedIfKey ==
    /\ (ExactlyOneMatch /\ TheMatch.LocalKeyFile # "") =>
          (selectedInstance = TheMatch /\ err.kind \notin {"Ambiguous", "NoSuchInstance", "MissingKey"})
    /\ (ExactlyOneMatch /\ TheMatch.LocalKeyFile = "") =>
          /\ selectedInstance = NoRecord
          /\ pc = "failed"
          /\ err = Error("MissingKey", "nil", <<>>, TheMatch.InstanceId)

C3_Witness ==
    /\ ExactlyOneMatch /\ Len(launchResults) = MaxInst /\ instanceId = IdPool[MaxInst]
    /\ launchResults[1].LocalKeyFile = ""
    /\ selectedInstance = TheMatch /\ selectedInstance # NoRecord

Picked == launchResults[MatchIndex(launchResults, instanceId)]

HasPick == StageOk /\ ~IsAmbiguous(launchResults, instanceId) /\ Matches # {}

\* C15: on every entry point (ssh, scp, terminate, image, vpn, default) a
\* record with an empty local key file is never the selected one; selection
\* fails with the missing-local-key error instead.
C15_EmptyKeyNeverSelected ==
    /\ selectedInstance # NoRecord => selectedInstance.LocalKeyFile # ""
    /\ (HasPick /\ Picked.LocalKeyFile = "") =>
          /\ pc = "failed"
          /\ err = Error("MissingKey", "nil", <<>>, Picked.InstanceId)
          /\ selectedInstance = NoRecord
          /\ execd = NoExec
    /\ (HasPick /\ Picked.LocalKeyFile # "") => selectedInstance = Picked

\* an instance launched on the default path whose key pair has no local file
C15_Witness ==
    /\ cmd = "" /\ launchCount = 1 /\ launched.LocalKeyFile = ""
    /\ pc = "failed" /\ err = Error("MissingKey", "nil", <<>>, NewInstanceId)

\* C4: the ssh, scp, terminate, image and vpn entry points never invoke the
\* launcher; with zero located instances they fail with "No spotsh instances
\* running".
C4_NoLaunchFromSubcommands ==
    cmd \in NonLaunchCommands =>
        /\ launchCount = 0
        /\ launched = NoRecord
        /\ (Selected /\ LocatedNone) =>
              /\ pc = "failed"
              /\ err = Error("LookupLaunch", "NoInstances", <<>>, "")
              /\ selectedInstance = NoRecord

C4_Witness ==
    /\ cmd = "terminate" /\ Selected /\ LocatedNone
    /\ err.cause = "NoInstances" /\ launchCount = 0

\* LaunchEc2Spot was called and returned an error
LauncherFailed == launchCount = 1 /\ launcherErr # "nil"

FirstSeqDone == probeSeq = 2 \/ (probeSeq = 1 /\ pc # "testSsh")

Finished == pc \in {"exec", "failed"}

\* C8 (as stated): a probe sequence of refusals only never triggers the
\* remediation; one that contains a timeout does, exactly once.  Stated for
\* the sequences most favourable to the claim: all nine attempts failed with
\* a refusal or a timeout.
C8_AnyTimeoutRemediates ==
    /\ (FirstSeqDone /\ ~seqHist[1].sawTimeout) => remediations = 0
    /\ (Finished /\ FirstSeqDone /\ seqHist[1].n = ProbeRetries + 1
          /\ seqHist[1].onlyRetryable /\ seqHist[1].sawTimeout) => remediations = 1

\* C8 (amended): refusals only never trigger the remediation; it is triggered
\* exactly when the first probe sequence used up all its attempts and its
\* last attempt timed out, and then exactly once, also when the re-run
\* sequence times out again.
C8_LastTimeoutRemediatesOnce ==
    /\ remediations <= 1
    /\ (FirstSeqDone /\ ~seqHist[1].sawTimeout) => remediations = 0
    /\ remediations = 1 =>
          (seqHist[1].last = "timeout" /\ seqHist[1].n = ProbeRetries + 1
             /\ seqHist[1].onlyRetryable)
    /\ (FirstSeqDone /\ seqHist[1].last = "timeout") =>
          (remediations = 1 \/ pc = "remediate")
    /\ (FirstSeqDone /\ seqHist[1].last # "timeout") => remediations = 0

C8_Witness ==
    /\ pc = "failed" /\ remediations = 1
    /\ seqHist[1].last = "timeout" /\ seqHist[2].last = "timeout"
    /\ seqHist[2].n = ProbeRetries + 1

\* the remediation ran and returned no error
RemediatedOk == remediations = 1 /\ ingress.ferr = "nil" /\ pc # "panicked"

\* the parts of C21 about when the remediation runs and what follows it
RemediationOnceThenRerun ==
    /\ remediations <= 1
    /\ remediations = 1 =>
          (seqHist[1].last = "timeout" /\ seqHist[1].n = ProbeRetries + 1)
    /\ probeSeq <= 2
    /\ (RemediatedOk /\ Finished) => seqHist[2].n >= 1
    /\ seqHist[2].n >= 1 => RemediatedOk
    /\ pc = "remediate" => (remediations = 0 /\ probeSeq = 1)

\* C21 (as stated): the remediation runs at most once and only after a probe
\* sequence that ended with the timeout classification; a rule is added only
\* if no existing rule description contains both "ssh" and the host name; a
\* remediation that reports no error is followed by exactly one re-run of the
\* probe sequence and never by a second remediation.
C21_AddsOnlyIfNoRuleExists ==
    /\ RemediationOnceThenRerun
    /\ ingress.added => ~ingress.matching

\* C21 (amended): as above, but the rule is added whenever the query of the
\* security group did not find a matching description, which includes the
\* case that the query itself failed while such a rule exists.
C21_AddsOnlyIfNoRuleFound ==
    /\ RemediationOnceThenRerun
    /\ ingress.authorized => ingress.found = "false"
    /\ ingress.added => ingress.authorized
    /\ ingress.found = "true" => (ingress.described = "ok" /\ ingress.matching)
    /\ (ingress.found = "false" /\ ingress.described = "ok") => ~ingress.matching
    /\ (RemediatedOk /\ ~ingress.added) => ingress.found = "true"

\* the query failed, a matching rule exists, a rule is added and the re-run
\* sequence times out again without a second remediation
C21_Witness ==
    /\ pc = "failed" /\ remediations = 1
    /\ ingress.described = "failed" /\ ingress.matching /\ ingress.added
    /\ seqHist[2].n = ProbeRetries + 1 /\ seqHist[2].last = "timeout"

\* testSsh call number i has returned
SeqDone(i) == probeSeq >= i /\ ~(probeSeq = i /\ pc = "testSsh")

\* C22: a probe sequence makes at most ProbeRetries + 1 attempts and ends;
\* while it runs every attempt so far was refused or timed out and attempts
\* remain; it ends with a success, with an error that is neither of the two,
\* or with the last attempt used up.
C22_ProbeSequenceTerminates ==
    /\ [](\A i \in 1..2 : seqHist[i].n <= ProbeRetries + 1)
    /\ [](pc = "testSsh" =>
            /\ seqHist[probeSeq].onlyRetryable
            /\ seqHist[probeSeq].n <= ProbeRetries
            /\ seqHist[probeSeq].n = ProbeRetries - retries)
    /\ [](\A i \in 1..2 : SeqDone(i) =>
            \/ seqHist[i].last \in {"nil", "other"}
            \/ seqHist[i].n = ProbeRetries + 1)
    /\ [][pc = "testSsh" => seqHist'[probeSeq].n = seqHist[probeSeq].n + 1]_vars
    /\ [](pc = "testSsh" => <>(pc # "testSsh"))

\* a sequence of eight refusals and a success, and one stopped by its third
\* attempt
C22_Witness ==
    /\ SeqDone(2)
    /\ seqHist[2].n = 3 /\ seqHist[2].last = "other"
    /\ seqHist[1].n = ProbeRetries + 1 /\ seqHist[1].last = "timeout"

\* the invocation failed after the remediation was tried, with no successful
\* probe since
FailedAfterRemediation ==
    pc = "failed" /\ remediations = 1 /\ seqHist[2].last # "nil"

\* C23 (as stated): an invocation that fails after the remediation returns an
\* error that carries the connectivity error of the first probe sequence and
\* the remediation error, if there was one.
C23_ComposedOfOriginalAndRemediation ==
    FailedAfterRemediation =>
        /\ err.cause = seqHist[1].last
        /\ err.id = ingress.ferr \/ (ingress.ferr = "nil" /\ err.id = "")

\* C23 (amended): if the remediation itself failed, the error is composed of
\* the first sequence's connectivity error and the remediation error and no
\* re-run is made; if the remediation succeeded and the re-run failed, the
\* error carries the re-run's connectivity error only.
C23_ComposedOnlyWhenRemediationFails ==
    FailedAfterRemediation =>
        IF ingress.ferr # "nil"
          THEN /\ err.kind = "SshIngress"
               /\ err.cause = seqHist[1].last /\ err.cause = "timeout"
               /\ err.id = ingress.ferr
               /\ seqHist[2].n = 0
          ELSE /\ err.kind = "SshPort"
               /\ err.cause = seqHist[2].last /\ err.id = ""
               /\ seqHist[2].n >= 1

\* the remediation could not learn the caller's address and fails
C23_Witness ==
    /\ FailedAfterRemediation
    /\ ingress.ferr = "externalIpFailed"
    /\ err.kind = "SshIngress" /\ err.cause = "timeout" /\ err.id = "externalIpFailed"

\* the most recent testSsh call returned nil
LastSequenceOk ==
    probeSeq >= 1 /\ SeqDone(probeSeq) /\ seqHist[probeSeq].last = "nil"

\* the most recent testSsh call returned an error
LastSequenceFailed ==
    probeSeq >= 1 /\ SeqDone(probeSeq) /\ seqHist[probeSeq].last # "nil"

\* C24 (as stated): ssh or scp is executed only if the most recent probe
\* sequence ended with a successful probe; after a failed last sequence
\* nothing is executed.
C24_ExecOnlyAfterGate ==
    /\ execd # NoExec => LastSequenceOk
    /\ LastSequenceFailed => execd = NoExec

\* C24 (amended): ssh is executed, and execSsh entered, only if the most
\* recent probe sequence ended with a successful probe, and nothing is
\* executed after a failed one; scp is executed right after the selection,
\* with no probe at all.
C24_SshExecOnlyAfterGate ==
    /\ (execd # NoExec /\ execd.prog = "ssh") =>
          (LastSequenceOk /\ cmd \in {"", "ssh"}
             /\ execd = ExecOf("ssh", selectedInstance))
    /\ pc = "execSsh" => LastSequenceOk
    /\ LastSequenceFailed => execd = NoExec
    /\ (execd # NoExec /\ execd.prog = "scp") =>
          (cmd = "scp" /\ probeSeq = 0 /\ seqHist = <<NoHist, NoHist>>
             /\ execd = ExecOf("scp", selectedInstance))
    /\ pc = "scpExec" => probeSeq = 0

\* ssh executed after a remediation and a re-run that succeeded at its
\* second attempt
C24_Witness ==
    /\ execd # NoExec /\ execd.prog = "ssh"
    /\ remediations = 1 /\ probeSeq = 2
    /\ seqHist[2].n = 2 /\ seqHist[2].last = "nil"

\* C9: ssh or scp is never executed for a record whose public IP or local
\* key file is empty.
C9_ExecOnlyUsable ==
    execd # NoExec => (execd.PublicIp # "" /\ execd.key # "")

\* the positions of the calls of one kind in the log
CallsOf(op) == {i \in 1..Len(calls) : calls[i].op = op}

\* C38: the instance id imageMain passes to CreateImage is the id of the
\* record the selection returned, also when --instance-id was not given and
\* the only running instance was selected.
C38_ImageOfSelectedInstance ==
    \A i \in CallsOf("CreateImage") : calls[i].id = selectedInstance.InstanceId

\* what the code passes: the value of the --instance-id flag, which is the
\* selected record's id only when the flag was given
ImageOfFlagValue ==
    \A i \in CallsOf("CreateImage") :
       /\ calls[i].id = instanceId
       /\ instanceId # "" => calls[i].id = selectedInstance.InstanceId

\* C40: TerminateInstance is called for the selected instance, and when its
\* spotsh.vpn tag read "true" only after the local teardown succeeded and the
\* tag was set to "false"; when reading the tag, the teardown or the tag
\* update fails the instance is not terminated; when the tag is not "true"
\* no teardown is run before terminating.
C40_TeardownBeforeTerminate ==
    /\ \A i \in CallsOf("TerminateInstance") :
          /\ calls[i].id = selectedInstance.InstanceId
          /\ \E g \in CallsOf("GetTagValue") : g < i /\ calls[g].ok
          /\ needVpnTeardown = "true" =>
                \E t \in CallsOf("runLocal teardown"), u \in CallsOf("UpdateTag false") :
                   /\ t < u /\ u < i
                   /\ calls[t].ok /\ calls[u].ok
                   /\ calls[u].id = selectedInstance.InstanceId
          /\ needVpnTeardown # "true" =>
                (CallsOf("runLocal teardown") = {} /\ CallsOf("UpdateTag false") = {})
    /\ (\E i \in 1..Len(calls) :
          calls[i].op \in {"GetTagValue", "runLocal teardown", "UpdateTag false"}
             /\ ~calls[i].ok) =>
          (CallsOf("TerminateInstance") = {} /\ pc = "subFailed" /\ subErr # "nil")
    /\ (cmd = "terminate" /\ subErr \in {"TempDir", "WriteFile"}) =>
          (CallsOf("TerminateInstance") = {} /\ pc = "subFailed")
    /\ (cmd = "terminate" /\ pc = "subDone") => CallsOf("TerminateInstance") # {}

\* the tag read "true", the teardown ran, the tag was reset and the instance
\* terminated
C40_Witness ==
    /\ pc = "subDone" /\ cmd = "terminate"
    /\ needVpnTeardown = "true"
    /\ Len(calls) = 4
    /\ calls[4].op = "TerminateInstance" /\ calls[4].ok

-----------------------------------------------------------------------------
(* Properties of the locator (SpecRegion, SpecLookup) *)

\* the listed instance a record was built from
ListedAs(id) == CHOOSE k \in 1..Len(descInstances) : descInstances[k].InstanceId = id

\* C5: the locator never returns a record for an instance that lacks the
\* spotsh.user tag or is not running, wherever it stands in the listing.
C5_OnlyOwnedRunning ==
    \A i \in 1..Len(scan.results) :
       /\ \E k \in 1..Len(descInstances) :
            descInstances[k].InstanceId = scan.results[i].InstanceId
       /\ descInstances[ListedAs(scan.results[i].InstanceId)].State = "running"
       /\ HasTag(descInstances[ListedAs(scan.results[i].InstanceId)], UserTagKey)

\* an owned running instance listed first, then a running one without the
\* ownership tag but with an os tag: only the first is returned
C5_Witness ==
    /\ rpc = "returned" /\ rerr = "nil" /\ locator = "aws"
    /\ Len(descInstances) = 2
    /\ descInstances[1].State = "running" /\ HasTag(descInstances[1], UserTagKey)
    /\ descInstances[2].State = "running" /\ ~HasTag(descInstances[2], UserTagKey)
    /\ HasTag(descInstances[2], OsTagKey)
    /\ Len(scan.results) = 1

\* the scan reached the end of the listing (no describe, key or subnet error)
ScanCompleted ==
    /\ rpc \in {"returned", "panicked"}
    /\ rerr \notin {"DescribeInstances", "LookupKeys", "DescribeSubnets"}

\* C32: a scan that located at least one instance makes exactly one price
\* query, for the worker's own region and for the instance types of the
\* located records, and a successful return leaves in every record the price
\* of the table entry of the record's own type and own AZ; a scan that
\* located nothing makes no price query.
C32_PriceBackFill ==
    /\ Len(priced) = Len(scan.results)
    /\ Len(priceQueries) <= 1
    /\ priceQueries # <<>> => (ScanCompleted /\ Len(scan.results) >= 1)
    /\ (ScanCompleted /\ Len(scan.results) >= 1) =>
          /\ Len(priceQueries) = 1
          /\ priceQueries[1].Region = ScanRegion
          /\ Len(priceQueries[1].InstanceTypes) = Len(priced)
          /\ \A k \in 1..Len(priced) :
                priceQueries[1].InstanceTypes[k] = priced[k].InstanceType
    /\ (rpc = "returned" /\ rerr = "nil" /\ Len(scan.results) >= 1) =>
          \A k \in 1..Len(priced) :
             /\ priced[k].AzName \in DOMAIN spotPriceAzs[priced[k].InstanceType]
             /\ priced[k].CurrentPrice =
                  spotPriceAzs[priced[k].InstanceType][priced[k].AzName].CurPrice

\* two located instances of different types in different AZs, priced
C32_Witness ==
    /\ rpc = "returned" /\ rerr = "nil"
    /\ Len(priced) = 2
    /\ priced[1].InstanceType # priced[2].InstanceType
    /\ priced[1].AzName # priced[2].AzName
    /\ priced[1].CurrentPrice > 0 /\ priced[2].CurrentPrice > 0
    /\ priced[1].CurrentPrice # priced[2].CurrentPrice

\* the value of an instance's own spotsh.os tag ("" without one)
OwnOsTag(inst) ==
    IF HasTag(inst, OsTagKey)
      THEN inst.Tags[CHOOSE i \in 1..Len(inst.Tags) : inst.Tags[i].Key = OsTagKey].Value
      ELSE ""

OwnUserTag(inst) ==
    IF HasTag(inst, UserTagKey)
      THEN inst.Tags[CHOOSE i \in 1..Len(inst.Tags) : inst.Tags[i].Key = UserTagKey].Value
      ELSE ""

\* C33: every record of the locator of aws/spotinst.go carries the user of
\* its own instance's spotsh.user tag and the OS of its own instance's
\* spotsh.os tag (OS none without such a tag), whatever was listed before it.
C33_OwnUserAndOs ==
    locator = "aws" =>
      \A i \in 1..Len(scan.results) :
         LET inst == descInstances[ListedAs(scan.results[i].InstanceId)]
         IN  /\ scan.results[i].User = OwnUserTag(inst)
             /\ scan.results[i].Os = OsFromString(OwnOsTag(inst))

\* the part of C33 the code keeps: the user is the own instance's
OwnUser ==
    locator = "aws" =>
      \A i \in 1..Len(scan.results) :
         scan.results[i].User =
            OwnUserTag(descInstances[ListedAs(scan.results[i].InstanceId)])

\* C34: the per-region locator always ends by returning records or an error;
\* a record whose (type, region, AZ) has no price point in the table does not
\* abort the process.
C34_AlwaysReturns ==
    rpc # "panicked"

\* what the code does instead: it returns unless the table lacks a record's
\* point, and then the process stops in the back-fill with nothing returned
PanicsExactlyOnMissingPoint ==
    rpc = "panicked" <=>
       /\ ScanCompleted /\ rerr = "nil" /\ Len(priceQueries) = 1
       /\ \E k \in 1..Len(priced) :
             priced[k].AzName \notin DOMAIN spotPriceAzs[priced[k].InstanceType]

\* the instances of the queried regions the locator has to return
Owned(r) == {k \in 1..Len(cloud[r]) :
               cloud[r][k].State = "running" /\ HasTag(cloud[r][k], UserTagKey)}

Queried == {regionList[k] : k \in 1..Len(regionList)}

C11_FailureReturnsNoRecords ==
    /\ (lpc = "returned" /\ wgErr # "nil") =>
          (lret.err = wgErr /\ lret.err # "nil" /\ lret.results = <<>>)
    /\ (lpc = "returned" /\ regionList # <<>> /\ lret.err # "nil") => wgErr # "nil"

\* one region failed after another had merged a record
C11_Witness ==
    /\ lpc = "returned" /\ lret.err # "nil" /\ lret.results = <<>>
    /\ Len(resultsAllRegions) >= 1

-----------------------------------------------------------------------------
(* Properties of the price table (SpecPrice) *)

PriceRegions == {pRegionList[k] : k \in 1..Len(pRegionList)}

\* the price points stored for type t in region r
StoredIn(t, r) ==
    {result.InstanceTypes[t].Regions[r].Azs[a] : a \in AzSuffixes} \ {NoPoint}

StoredOf(t) == UNION {StoredIn(t, r) : r \in PriceRegions}

StoredAll == UNION {StoredOf(t) : t \in DOMAIN result.InstanceTypes}

\* the point a type's cheapest-region pointer leads to
CheapestOf(t) ==
    LET it == result.InstanceTypes[t]
    IN  IF it.CheapestRegion = "nil" THEN NoPoint
        ELSE it.Regions[it.CheapestRegion].CheapestAz

LowestIn(p, points) == \A q \in points : p.CurPrice <= q.CurPrice

\* the three levels of cheapest pointers lead to stored, lowest-priced points
CheapestConsistent ==
    /\ \A t \in DOMAIN result.InstanceTypes : \A r \in PriceRegions :
         LET c == result.InstanceTypes[t].Regions[r].CheapestAz
         IN  StoredIn(t, r) # {} => (c \in StoredIn(t, r) /\ LowestIn(c, StoredIn(t, r)))
    /\ \A t \in DOMAIN result.InstanceTypes :
         StoredOf(t) # {} =>
            /\ result.InstanceTypes[t].CheapestRegion # "nil"
            /\ CheapestOf(t) \in StoredIn(t, result.InstanceTypes[t].CheapestRegion)
            /\ LowestIn(CheapestOf(t), StoredOf(t))
    /\ StoredAll # {} =>
         /\ result.CheapestIType # "nil"
         /\ CheapestOf(result.CheapestIType) \in StoredOf(result.CheapestIType)
         /\ LowestIn(CheapestOf(result.CheapestIType), StoredAll)

\* C7: after each price point is ingested, also when a (type, region, az) is
\* reported more than once, every cheapest pointer references a point that is
\* stored in the table and whose price is <= every other stored point of its
\* scope.
C7_CheapestAlwaysStoredAndLowest ==
    ingested > 0 => CheapestConsistent

\* the same for streams that report no (type, region, az) twice
CheapestConsistentWithoutRepeats ==
    (ingested > 0 /\ ~repeated) => CheapestConsistent

\* the price points the caller receives
Delivered == IF pret.result THEN StoredAll ELSE {}

\* C10: when a region's query fails, the call fails with the first error
\* recorded, returns only after every worker has finished, and hands none of
\* the price points the other workers gathered to the caller.
C10_FailureDeliversNoPoints ==
    (ppc = "returned" /\ pwgErr # "nil") =>
        /\ pret.err = pwgErr
        /\ \A r \in PriceRegions : pwpc[r] = "done"
        /\ Delivered = {}

\* the parts of C10 the code keeps: first error returned, after all workers
FailureReturnsFirstErrorAfterAll ==
    (ppc = "returned" /\ pwgErr # "nil") =>
        /\ pret.err = pwgErr
        /\ \A r \in PriceRegions : pwpc[r] = "done"

\* C13: with an empty set of instance types LookupEc2SpotPrices fails with
\* the validation error and makes no network call: no region listing, no
\* per-region client, no price-history query.
C13_EmptyTypesFailWithoutCalls ==
    (piTypes = {} /\ ppc # "idle") =>
        /\ pcalls = {}
        /\ ppc \in {"start", "returned"}
        /\ \A r \in Regions : pwpc[r] = "idle"
        /\ ppc = "returned" => pret = [result |-> FALSE, err |-> "NoInstanceTypes"]

\* all regions asked for, no types given
C13_Witness ==
    /\ piTypes = {} /\ pRegionArg = "all" /\ ppc = "returned"
    /\ pret.err = "NoInstanceTypes" /\ pcalls = {}

\* the point the three levels of cheapest pointers lead to from the top
GlobalCheapest ==
    IF result.CheapestIType = "nil" THEN NoPoint ELSE CheapestOf(result.CheapestIType)

\* in one step of a worker no cheapest pointer is replaced unless it was nil
\* or the step leaves it at a strictly lower price
ReplacedOnlyByLower ==
    /\ \A t \in piTypes : \A r \in PriceRegions :
         LET c == result.InstanceTypes[t].Regions[r].CheapestAz
         IN  c' # c => (c = NoPoint \/ c'.CurPrice < c.CurPrice)
    /\ \A t \in piTypes :
         LET cr == result.InstanceTypes[t].CheapestRegion
         IN  cr' # cr => (cr = "nil" \/ CheapestOf(t)'.CurPrice < CheapestOf(t).CurPrice)
    /\ result.CheapestIType' # result.CheapestIType =>
         (result.CheapestIType = "nil" \/ GlobalCheapest'.CurPrice < GlobalCheapest.CurPrice)

\* C31: a cheapest pointer of the AZ, region or global level is replaced only
\* by a price point strictly lower than the price it references, never by one
\* of equal price; and as every pointer leads to a lowest-priced point of its
\* scope, the cheapest chosen under two arrival orders of the same points can
\* differ only among points of exactly equal price.
C31_FirstObservedWins ==
    /\ [][ppc = "wait" => ReplacedOnlyByLower]_vars
    /\ []CheapestConsistentWithoutRepeats

\* two regions hold a cheapest point of the same type at the same, lowest price
C31_Witness ==
    /\ ~repeated
    /\ \E t \in piTypes : \E r1, r2 \in PriceRegions :
         /\ r1 # r2
         /\ result.InstanceTypes[t].Regions[r1].CheapestAz # NoPoint
         /\ result.InstanceTypes[t].Regions[r2].CheapestAz # NoPoint
         /\ result.InstanceTypes[t].Regions[r1].CheapestAz.CurPrice
              = result.InstanceTypes[t].Regions[r2].CheapestAz.CurPrice
         /\ result.CheapestIType = t
         /\ GlobalCheapest.CurPrice = result.InstanceTypes[t].Regions[r1].CheapestAz.CurPrice

\* two reported entries are of the same (type, region, az)
SameKey(i, k) ==
    /\ reported[i].t = reported[k].t
    /\ reported[i].r = reported[k].r
    /\ reported[i].p.AzName = reported[k].p.AzName

\* entry k is the last one reported for its (type, region, az)
LatestReport(k) == \A i \in (k + 1)..Len(reported) : ~SameKey(i, k)

ReportedPoints == {reported[k].p : k \in 1..Len(reported)}

\* the table holds the point of every (type, region, az) reported, and no other
ReportedAllStored ==
    /\ \A k \in 1..Len(reported) :
          LatestReport(k) =>
            result.InstanceTypes[reported[k].t].Regions[reported[k].r].Azs[
                reported[k].p.AzName] = reported[k].p
    /\ StoredAll \subseteq ReportedPoints

GlobalCheapestIsMinimum ==
    IF reported = <<>>
      THEN GlobalCheapest = NoPoint
      ELSE /\ GlobalCheapest # NoPoint
           /\ \E k \in 1..Len(reported) : reported[k].p.CurPrice = GlobalCheapest.CurPrice
           /\ \A k \in 1..Len(reported) : GlobalCheapest.CurPrice <= reported[k].p.CurPrice

\* every worker has finished and none returned an error
PricesDone == ppc = "returned" /\ pret.result /\ pret.err = "nil"

\* a step that changes the table is the store of the worker holding the mutex
StoreUnderLock ==
    \E r \in Regions :
        /\ mutex = r
        /\ pwpc[r] = "store"
        /\ \A q \in Regions \ {r} : pwpc[q] # "store"
        /\ mutex' = "free"

\* C30: every update of the price table is made by the one worker that holds
\* result.mutex; so, however the workers interleave, once all of them have
\* finished without an error the table holds the point of every (type,
\* region, az) that any region reported, and the global cheapest pointers lead
\* to a point whose price is the minimum over all reported points.
C30_NoLostUpdate ==
    /\ [][(ppc = "wait" /\ result' # result) => StoreUnderLock]_vars
    /\ [](PricesDone => ReportedAllStored /\ GlobalCheapestIsMinimum)

\* two regions each reported a point of the same instance type, the second
\* one cheaper, and the call returned without an error
C30_Witness ==
    /\ PricesDone
    /\ Len(reported) = 2
    /\ reported[1].r # reported[2].r
    /\ reported[1].t = reported[2].t
    /\ reported[2].p.CurPrice < reported[1].p.CurPrice

\* a worker waits for the mutex another worker holds
LockContended ==
    \E r, q \in Regions : r # q /\ mutex = r /\ pwpc[r] = "store" /\ pwpc[q] = "lock"

-----------------------------------------------------------------------------
(* Properties of the launcher (SpecLaunch) *)

\* CreateFleet returned exactly one instance with one id
Requested == launchResult.InstanceId # ""

\* C12: once the request has returned one instance, a failing description
\* call ends the polling and LaunchEc2Spot returns nil with the instance id
\* set and an empty public address; no launch error arises after the request.
C12_DescribeFailureIsSuccess ==
    /\ lastPoll = "error" =>
          /\ lapc = "returned"
          /\ launchErr = "nil"
          /\ launchResult.InstanceId = NewInstanceId
          /\ launchResult.PublicIp = ""
    /\ Requested => launchErr = "nil"

\* the description failed after two rounds without an address
C12_Witness ==
    /\ lapc = "returned" /\ lastPoll = "error" /\ polls = MaxPolls
    /\ launchErr = "nil" /\ launchResult.InstanceId = NewInstanceId
    /\ launchResult.PublicIp = ""

\* the position of a step in the steps taken so far, 0 if it was not taken
StagePos(name) ==
    IF \E i \in 1..Len(stages) : stages[i] = name
      THEN CHOOSE i \in 1..Len(stages) : stages[i] = name
      ELSE 0

\* step a, if taken, was taken after step b
After(a, b) == StagePos(a) > 0 => (StagePos(b) > 0 /\ StagePos(b) < StagePos(a))

\* the launch stopped with an error or fatally
LaunchStopped == launchErr # "nil" \/ lapc = "panicked"

\* the parts of C25 that do not depend on the order of the three resolutions
StagesInOrder ==
    /\ After("RequestInstance", "ResolveImage")
    /\ After("RequestInstance", "ResolveNetwork")
    /\ After("RequestInstance", "ResolveKey")
    /\ After("PollAddress", "RequestInstance")
    /\ StagePos("PollAddress") > 0 => Requested
    /\ \A i, j \in 1..Len(stages) : stages[i] = stages[j] => i = j
    /\ launchErr # "nil" => lapc = "returned"
    /\ LaunchStopped => stages[Len(stages)] # "PollAddress" \/ lapc = "panicked"
    /\ (lapc = "returned" /\ launchErr = "nil") =>
          (StagePos("PollAddress") > 0 /\ Requested)

\* C25 (as stated): the image is resolved before the network, the network
\* before the key pair, all three before the instance request, the polling
\* after the request; a failure stops the launch.
C25_ImageNetworkKey ==
    /\ StagesInOrder
    /\ After("ResolveNetwork", "ResolveImage")
    /\ After("ResolveKey", "ResolveNetwork")

\* C25 (amended): the key pair is resolved first, then the image and the
\* login user, then the network; all three before the instance request, the
\* polling after the request; a failure stops the launch.
C25_KeyImageNetwork ==
    /\ [](/\ StagesInOrder
          /\ After("ResolveImage", "ResolveKey")
          /\ After("ResolveNetwork", "ResolveImage"))
    /\ [][LaunchStopped => UNCHANGED <<stages, effects, launchResult>>]_vars

\* the network resolution failed: key and image were resolved, nothing later
C25_Witness ==
    /\ lapc = "returned" /\ launchErr # "nil"
    /\ stages = <<"CleanTemplate", "ResolveKey", "ResolveImage", "ResolveNetwork">>
    /\ keyName # "" /\ amiId # NoAmi /\ launchResult.SgId = ""

\* both an image id and an image name, or one of them without a login user
InvalidImageArgs ==
    \/ launchArgs.AmiId # "" /\ launchArgs.AmiName # ""
    \/ (launchArgs.AmiId # "" \/ launchArgs.AmiName # "") /\ launchArgs.User = ""

\* the image step has been passed without an error
ImageResolved == lapc \in {"network", "create", "request", "poll"}
                    \/ (lapc \in {"returned", "panicked"} /\ StagePos("ResolveNetwork") > 0)

\* C26: with both an image id and an image name, or with one of them and no
\* login user, LaunchEc2Spot returns an error and requests no instance; with
\* neither, the login user is the table's user of the (defaulted) OS, whatever
\* user the arguments name.
C26_ImageArgsValidated ==
    /\ InvalidImageArgs =>
          /\ ~ImageResolved /\ lapc # "panicked"
          /\ template = NoTemplate /\ ~Requested /\ "CreateFleet" \notin effects
          /\ lapc = "returned" => launchErr # "nil"
    /\ (launchArgs.AmiId = "" /\ launchArgs.AmiName = "" /\ ImageResolved) =>
          /\ launchArgs.Os \in 1..(Len(imageIdTabUser) - 1)
          /\ launchResult.User = imageIdTabUser[launchArgs.Os + 1]
          /\ amiId = LatestAmi(imageIdTabSsmParam[launchArgs.Os + 1])

\* an instance launched with the table's user although the arguments name one
C26_Witness ==
    /\ lapc = "returned" /\ launchErr = "nil" /\ Requested
    /\ launchArgs.AmiId = "" /\ launchArgs.AmiName = ""
    /\ launchArgs.User = "bob" /\ launchArgs.Os = 5
    /\ launchResult.User = "admin"

\* LaunchEc2Spot returned one of the two errors of the image arguments
ValidationFailed ==
    /\ lapc = "returned"
    /\ launchErr \in {TemplateFailed("Ami id and ami name are mutually exclusive"),
                      TemplateFailed("User must be specified")}

\* C27: when LaunchEc2Spot fails with a validation error it has made no
\* state-changing call: nothing deleted, created, written, requested.
C27_ValidationBeforeAnyEffect ==
    ValidationFailed => (effects = {} /\ template = NoTemplate /\ ~Requested)

\* what does hold: when LaunchEc2Spot fails with a validation error it has
\* created no launch template and requested no instance, but the left-over
\* template was looked for (and deleted if there) and the key pair resolved
\* (the default one created and its file written if missing) before the check.
ValidationAfterKeyResolution ==
    /\ ValidationFailed =>
          /\ InvalidImageArgs
          /\ effects \subseteq {"DeleteLaunchTemplate", "CreateKeyPair", "WriteKeyFile"}
          /\ template = NoTemplate /\ ~Requested
          /\ stages = <<"CleanTemplate", "ResolveKey", "ResolveImage">>
          /\ keyName # ""
    /\ (InvalidImageArgs /\ lapc = "returned" /\ StagePos("ResolveImage") > 0
          /\ launchErr # TemplateFailed("getAmiIdFromName")) => ValidationFailed

\* LaunchEc2Spot returned after the polling loop
Polled == lapc = "returned" /\ Requested

\* C28: after the request the launcher polls on after every description
\* without an address, however many there were; it returns an address exactly
\* when a description reported one, and that one; it returns with an empty
\* address only after a failed description; the polling always ends when the
\* descriptions do not go on without an address for ever.
C28_PollsUntilAddressOrFailure ==
    /\ [](lastPoll = "noaddress" => (lapc = "poll" /\ launchResult.PublicIp = ""))
    /\ [](lapc = "poll" => (Requested /\ launchResult.PublicIp = "" /\ launchErr = "nil"))
    /\ [](Polled => (launchResult.PublicIp # "" <=> lastPoll \in PollAddresses))
    /\ [](Polled => (lastPoll \in PollAddresses => launchResult.PublicIp = lastPoll))
    /\ [](Polled => (launchResult.PublicIp = "" <=> lastPoll = "error"))
    /\ [][(lapc = "poll" /\ lastPoll' = "noaddress") =>
            (lapc' = "poll" /\ polls' = polls + 1)]_vars
    /\ [](lapc = "poll" => <>(lapc \in {"returned", "panicked"}))

\* Ready after as many rounds without an address as the model has
C28_Witness ==
    /\ Polled /\ polls = MaxPolls /\ launchErr = "nil"
    /\ lastPoll = "198.51.100.9" /\ launchResult.PublicIp = "198.51.100.9"

\* C29: when CreateFleet succeeds without exactly one instance entry holding
\* exactly one instance id, the launcher stops fatally: no instance id is
\* taken, no error or result is returned, nothing is polled and nothing
\* follows; likewise when a polled description does not hold exactly one
\* reservation with exactly one instance.
C29_CardinalityIsFatal ==
    /\ []((fleet # NoFleet /\ (fleet.instances # 1 \/ fleet.ids # 1)) =>
            /\ lapc = "panicked"
            /\ launchErr = "nil" /\ ~Requested
            /\ polls = 0 /\ lastPoll = "none" /\ StagePos("PollAddress") = 0)
    /\ [](lastPoll = "badcount" =>
            (lapc = "panicked" /\ launchErr = "nil" /\ launchResult.PublicIp = ""))
    /\ [](lapc = "poll" => FleetOk(fleet))
    /\ [](\A i, j \in 1..Len(stages) : stages[i] = stages[j] => i = j)
    /\ [][lapc = "panicked" => UNCHANGED launchVars]_vars

\* CreateFleet returned two instance entries
C29_Witness ==
    /\ lapc = "panicked" /\ fleet.instances = 2 /\ "CreateFleet" \in effects
    /\ stages[Len(stages)] = "RequestInstance" /\ ~Requested

\* no image id and no image name given
NoImageGiven == launchArgs.AmiId = "" /\ launchArgs.AmiName = ""

Amzn2023Tags == <<Tag(UserTagKey, "ec2-user"), Tag(OsTagKey, "amzn2023"),
                  Tag(VpnTagKey, "false")>>

Amzn2023Resolved ==
    /\ amiId = LatestAmi("al2023-default")
    /\ launchResult.User = "ec2-user"

C36_InvalidOsReturnsError ==
    launchArgs.Os = OsInvalid =>
       /\ lapc # "panicked"
       /\ ~Requested
       /\ lapc = "returned" => launchErr # "nil"

\* what the code does with OS invalid and no image given: once the key pair
\* is resolved the index into imageIdTab stops the process; nothing is requested
InvalidOsStopsAtImageTable ==
    (launchArgs.Os = OsInvalid /\ launchArgs.AmiId = "" /\ launchArgs.AmiName = ""
       /\ Len(stages) >= 3) =>
       /\ lapc = "panicked"
       /\ stages = <<"CleanTemplate", "ResolveKey", "ResolveImage">>
       /\ ~Requested /\ launchErr = "nil"

-----------------------------------------------------------------------------
(* Properties of the OperatingSystem conversions (SpecOs) *)

\* the values of the enumeration, OsNone and OsInvalid included
DefinedOs == 0..OsInvalid

\* C17: for every defined value v, OsFromString(v.String()) = v; for every
\* name s of the table, OsFromString(s).String() = s; osTab and osMap have the
\* same number of entries.
C17_RoundTrip ==
    /\ (osVal \in DefinedOs /\ ospc # <<"idle", "idle">>) => ospc[1] # "panicked"
    /\ (osVal \in DefinedOs /\ ospc[1] \in {"OsFromString", "done"}) =>
          osValStr = osTab[osVal + 1]
    /\ (osVal \in DefinedOs /\ ospc[1] = "done") => osValBack = osVal
    /\ (osName \in osMapKeys /\ ospc[2] \in {"String", "done"}) =>
          osNameVal \in DefinedOs
    /\ (osName \in osMapKeys /\ ospc[2] = "done") => osNameBack = osName
    /\ osName \in osMapKeys => ospc[2] # "panicked"
    /\ Cardinality(osMapKeys) = Len(osTab)

\* OsInvalid went to "invalid" and back, and "debian12" to its value and back
C17_Witness ==
    /\ ospc = <<"done", "done">>
    /\ osVal = OsInvalid /\ osValStr = "invalid" /\ osValBack = OsInvalid
    /\ osName = "debian12" /\ osNameVal = 5 /\ osNameBack = "debian12"

\* C18: OsFromString returns OsInvalid for every string that names no defined
\* value, and String() returns "invalid" for every value above OsInvalid.
C18_InvalidFallback ==
    /\ (osName \notin osMapKeys /\ ospc[2] \in {"String", "done"}) =>
          osNameVal = OsInvalid
    /\ (osVal > OsInvalid /\ ospc # <<"idle", "idle">>) => ospc[1] # "panicked"
    /\ (osVal > OsInvalid /\ ospc[1] \in {"OsFromString", "done"}) =>
          osValStr = "invalid"

\* the parts of C18 the code keeps: unknown strings give OsInvalid, and the
\* values above len(osTab) give "invalid"
InvalidFallbackBeyondTable ==
    /\ (osName \notin osMapKeys /\ ospc[2] \in {"String", "done"}) =>
          osNameVal = OsInvalid
    /\ (osVal > Len(osTab) /\ ospc # <<"idle", "idle">>) =>
          /\ ospc[1] # "panicked"
          /\ ospc[1] \in {"OsFromString", "done"} => osValStr = "invalid"

-----------------------------------------------------------------------------
(* Properties of spotsh scp (SpecScp) *)

\* whether SpotHostVar occurs in a string (an item that is no character never
\* matches)
Occurs(str) ==
    \E i \in 1..(Len(str) - 2) : SubSeq(str, i, i + 2) = SpotHostVar

\* the string with every host item turned back into SpotHostVar
RECURSIVE Restore(_, _)
Restore(str, host) ==
    IF Len(str) = 0 THEN <<>>
    ELSE IF Head(str) = host THEN SpotHostVar \o Restore(Tail(str), host)
    ELSE <<Head(str)>> \o Restore(Tail(str), host)

\* C19: scp is executed with the SCP arguments in their order, every
\* occurrence of {s} in every one of them replaced by <user>@<public ip> of
\* the selected instance and everything else unchanged.
C19_EveryOccurrenceReplaced ==
    scppc = "exec" =>
        /\ Len(scpExecd) = Len(scpArgs)
        /\ \A i \in 1..Len(scpArgs) :
             /\ ~Occurs(scpExecd[i])
             /\ Restore(scpExecd[i], UserAtPublicIp(scpSelected)) = scpArgs[i]
             /\ ~Occurs(scpArgs[i]) => scpExecd[i] = scpArgs[i]
        /\ Len(scpArgsIn) > 1 => scpArgs = FlagParse(scpArgsIn).rest
        /\ (Len(scpArgsIn) = 1 /\ scpArgsIn[1] # <<"-", "-">>) => scpArgs = scpArgsIn

\* two occurrences in the first argument and one in the second
C19_Witness ==
    /\ scppc = "exec"
    /\ scpArgsIn = <<SpotHostVar \o SpotHostVar, <<"{", "s", "}", "s">>>>
    /\ scpExecd = <<<<UserAtPublicIp(scpSelected), UserAtPublicIp(scpSelected)>>,
                    <<UserAtPublicIp(scpSelected), "s">>>>
    /\ scpSelected.PublicIp # ""

\* C39: the argument list main hands to the subcommand's handler is exactly
\* the words that follow the subcommand's name, never the name itself; so
\* `spotsh ssh` without further words executes ssh with nothing after
\* user@ip.
C39_NameNeverPassedOn ==
    /\ scppc = "select" => scpArgs = scpArgsIn
    /\ (scppc = "execSsh" /\ scpArgsIn = <<>>) =>
          scpExecd = <<<<UserAtPublicIp(scpSelected)>>>>

\* what main does: the name is dropped only when a word follows it
NameDroppedWhenWordsFollow ==
    /\ (scppc = "select" /\ scpArgsIn # <<>>) => scpArgs = scpArgsIn
    /\ (scppc = "select" /\ scpArgsIn = <<>>) => scpArgs = <<CommandWord(subCommandName)>>
    /\ (scppc = "execSsh" /\ scpArgsIn = <<>>) =>
          scpExecd = <<<<UserAtPublicIp(scpSelected)>>, CommandWord("ssh")>>

-----------------------------------------------------------------------------
(* Properties of the launcher of internal/aws (SpecCheap) *)

\* the subnets listed in the AZ the global cheapest pointers lead to
SubnetsInCheapestAz ==
    {k \in 1..Len(clSubnets) : clSubnets[k].AvailabilityZone = CheapestAzName(clTable)}

\* the subnet listing was read
SubnetsRead == clpc \in {"run", "poll"} \/ clRun # NoRun \/ clErr = "Could not find subnet"

\* C35: the instance request carries the type the table's global cheapest
\* pointer leads to and a subnet of the AZ of that cheapest point; when the
\* price query fails, or no subnet lies in that AZ, the launch returns an
\* error and no instance is requested.
C35_CheapestTypeAndSubnet ==
    /\ clRun # NoRun =>
          /\ clTable.CheapestIType # "nil"
          /\ clRun.InstanceType = clTable.CheapestIType
          /\ \E k \in SubnetsInCheapestAz : clSubnets[k].SubnetId = clRun.SubnetId
    /\ clErr = "LookupEc2SpotPrices" => (clpc = "returned" /\ clRun = NoRun)
    /\ (SubnetsRead /\ SubnetsInCheapestAz = {}) =>
          (clpc = "returned" /\ clErr = "Could not find subnet" /\ clRun = NoRun)
    /\ clErr \in {"Could not find subnet", "DescribeSubnets"} =>
          (clpc = "returned" /\ clRun = NoRun)

\* no type was given, prices of two default types were reported, the
\* cheapest lies in the AZ of the second subnet, and the instance was requested
C35_Witness ==
    /\ clRun # NoRun
    /\ clTypes = DefaultInstanceTypes
    /\ Cardinality({t \in clTypes : clTable.InstanceTypes[t].CheapestRegion # "nil"}) = 2
    /\ Len(clSubnets) = 2
    /\ clRun.SubnetId = clSubnets[2].SubnetId

\* the table of a successful price query has no cheapest type: the history
\* held no entry
EmptyHistoryStops ==
    clpc = "panicked" /\ clRun = NoRun => clTable.CheapestIType = "nil"

-----------------------------------------------------------------------------
(* Properties of getDefaultSecurityGroupId (SpecSg) *)

DefaultVpcs == {k \in 1..Len(sgVpcs) : sgVpcs[k].IsDefault}

\* the default network: the (first) VPC marked default, or the only VPC
HasDefaultNetwork == DefaultVpcs # {} \/ Len(sgVpcs) = 1
DefaultNetwork ==
    IF DefaultVpcs # {}
      THEN sgVpcs[CHOOSE k \in DefaultVpcs : \A j \in DefaultVpcs : k <= j].VpcId
      ELSE sgVpcs[1].VpcId

\* the groups of the default network, and those of them named "default"
GroupsOfNetwork == {k \in 1..Len(sgGroups) : sgGroups[k].VpcId = DefaultNetwork}
DefaultGroups == {k \in GroupsOfNetwork : sgGroups[k].GroupName = "default"}

SgReturnedOk == sgpc = "returned" /\ sgRet.err = "nil"
SgListingsRead ==
    sgpc = "returned" /\ sgRet.err \notin {"DescribeVpcs", "DescribeSecurityGroups"}

\* C37: with no group given, the default network is the VPC marked default,
\* or the only VPC when none is marked (an error otherwise); the result is the
\* id of the group named "default" of that VPC if there is one, else the id of
\* its only group when it has exactly one, else an error; a group of another
\* VPC is never returned.
C37_DefaultSecurityGroup ==
    /\ sgpc = "groups" => (HasDefaultNetwork /\ sgVpcId = DefaultNetwork)
    /\ (SgListingsRead /\ ~HasDefaultNetwork) => sgRet.err = "Could not find default VPC"
    /\ (SgListingsRead /\ HasDefaultNetwork) =>
          /\ sgVpcId = DefaultNetwork
          /\ IF DefaultGroups # {}
               THEN /\ sgRet.err = "nil"
                    /\ \E k \in DefaultGroups : sgGroups[k].GroupId = sgRet.id
             ELSE IF Cardinality(GroupsOfNetwork) = 1
               THEN /\ sgRet.err = "nil"
                    /\ \E k \in GroupsOfNetwork : sgGroups[k].GroupId = sgRet.id
             ELSE sgRet.err = "Could not find default Security Group"
    /\ SgReturnedOk =>
          \A k \in 1..Len(sgGroups) :
             sgGroups[k].GroupId = sgRet.id => sgGroups[k].VpcId = DefaultNetwork
    /\ (sgpc = "returned" /\ sgRet.err # "nil") => sgRet.id = ""

\* no VPC is marked default and there is one VPC; its groups are listed after
\* a group of another VPC named "default"; the group named "default" of the
\* VPC is returned though it is not the first of the VPC
C37_Witness ==
    /\ SgReturnedOk
    /\ Len(sgGroups) = 3
    /\ sgGroups[1].VpcId # DefaultNetwork /\ sgGroups[1].GroupName = "default"
    /\ sgGroups[2].VpcId = DefaultNetwork /\ sgGroups[2].GroupName # "default"
    /\ sgGroups[3].VpcId = DefaultNetwork /\ sgGroups[3].GroupName = "default"
    /\ sgRet.id = sgGroups[3].GroupId

====
